---- MODULE Spec2Model ----
(***************************************************************************)
(* Streaming action-protocol engine of the chat panel                      *)
(* (src/src/components/PromptEditor.tsx) together with the framing of the  *)
(* chat route that feeds it (src/src/app/api/projects/route.ts).           *)
(*                                                                         *)
(* Text is modelled as a sequence of tokens.  A token is one prose         *)
(* character, one whitespace character, one occurrence of a marker string  *)
(* or one lexical piece of a JSON object, so that the regular expression,  *)
(* the string replacements and JSON.parse act on the same positions as in  *)
(* the program.                                                            *)
(***************************************************************************)
EXTENDS Naturals, Integers, Sequences, FiniteSets, TLC

VARIABLES
    webcontainerInstance,  \* store: "null" until the sandbox has booted
    localActions,          \* the ledger: id -> entry (status "absent" = undefined)
    messages,              \* React state `messages`
    isChatLoading,         \* React state `isChatLoading`
    requests,              \* the fetch calls and the state of their read loops
    snaps,                 \* `messages` as captured by the render scope of each user send
    handlers,              \* position of the async handler of each action id
    sandboxCalls,          \* the calls made on the sandbox, in call order
    tape,                  \* the responses the backend will give, in order
    skipLog,               \* (id, status) pairs for which line 336 returned early
    lastParse,             \* input and output of the latest parseActionsFromChunk call
    ledgerLog,             \* id -> the statuses written to the ledger, in order
    toolRun,               \* one call of readFileTool / listFilesTool
    toolLoop,              \* the tool-call loop of one request to the projects route
    streamCall,            \* one call of getChatCompletionStream
    chatCall,              \* one call of AIService.getChatCompletion
    socketService,         \* the SocketService of the server and its calls
    socketServer,          \* the socket server: users, sockets, messages under way
    aiService,             \* the AIService instance of the projects route
    posts,                 \* the POST requests of the projects route under way
    contextCache,          \* the contextCache of one provider service and its use
    projectStore,          \* the generation state of the store and its generateProject calls
    projectFiles           \* the files of one project and the POST requests for it

\* State of the chat panel in the browser
clientVars == <<webcontainerInstance, localActions, messages, isChatLoading, requests,
                snaps, handlers, sandboxCalls, tape, skipLog, lastParse, ledgerLog>>

\* State of the server-side services
routeVars == <<toolRun, toolLoop, streamCall>>

\* State of the services the routes call
chatVars == <<chatCall>>
socketVars == <<socketService, socketServer>>

providerVars == <<aiService, posts>>

cacheVars == <<contextCache>>

storeVars == <<projectStore>>

filesVars == <<projectFiles>>

serviceVars == <<chatVars, socketVars, providerVars, cacheVars, storeVars, filesVars>>

\* What the actions of one service leave alone
othersOfChat ==
    <<clientVars, routeVars, socketVars, providerVars, cacheVars, storeVars, filesVars>>
othersOfSocket ==
    <<clientVars, routeVars, chatVars, providerVars, cacheVars, storeVars, filesVars>>
othersOfProvider ==
    <<clientVars, routeVars, chatVars, socketVars, cacheVars, storeVars, filesVars>>
othersOfCache ==
    <<clientVars, routeVars, chatVars, socketVars, providerVars, storeVars, filesVars>>
othersOfStore ==
    <<clientVars, routeVars, chatVars, socketVars, providerVars, cacheVars, filesVars>>
othersOfFiles ==
    <<clientVars, routeVars, chatVars, socketVars, providerVars, cacheVars, storeVars>>

serverVars == <<routeVars, serviceVars>>

vars == <<clientVars, serverVars>>

----------------------------------------------------------------------------
(* Bounds *)

MaxSends == 1
MaxLen == 3
MaxChunks == 2
MaxSegs == 2
MaxToolCalls == 2
MaxStreamChunks == 2
MaxParts == 3
MaxCalls == 2
MaxSockets == 2
MaxPosts == 2
MaxPrompts == 3
MaxContent == 2
MaxGenerations == 2
MaxWrites == 2
MaxFilePosts == 2

Ids == {1, 2, 3}

----------------------------------------------------------------------------
(* Tokens *)

Tok(t) ==
    [t |-> t, id |-> 0, action |-> "", immediate |-> FALSE,
     file_path |-> "", command |-> ""]

OPEN == Tok("open")        \* the string <x-system-action>
CLOSE == Tok("close")      \* the string </x-system-action>
DATA == Tok("data")        \* the string "data: " put before every chunk by the route
WS == Tok("ws")            \* one whitespace character
BAD == Tok("bad")          \* a piece of text that is not JSON
ENDC == Tok("endc")        \* the text "} that ends a content string and the object
ChA == Tok("a")            \* prose characters
ChB == Tok("b")

\* Characters that may stand inside a JSON string without ending it
StringChars == {"a", "b", "ws", "open", "close", "data"}

Undefined == [def |-> FALSE, text |-> <<>>]
Defined(text) == [def |-> TRUE, text |-> text]

\* The object an action block carries
ActionType(id, action, immediate, file_path, command, content) ==
    [id |-> id, action |-> action, immediate |-> immediate,
     file_path |-> file_path, command |-> command, content |-> content]

NoAction == ActionType(0, "", FALSE, "", "", Undefined)

\* JSON.stringify of an action object: one token when it has no content field,
\* otherwise the head up to the opening quote of the content string, the
\* characters of the string and the closing text
Stringify(a) ==
    LET head(t) == [t |-> t, id |-> a.id, action |-> a.action,
                    immediate |-> a.immediate, file_path |-> a.file_path,
                    command |-> a.command]
    IN  IF a.content.def
        THEN <<head("objc")>> \o a.content.text \o <<ENDC>>
        ELSE <<head("obj")>>

Block(a) == <<OPEN>> \o Stringify(a) \o <<CLOSE>>

----------------------------------------------------------------------------
(* String functions used by the read loop and by parseActionsFromChunk *)

\* String.prototype.indexOf from position p (1-based); 0 when not found
IndexOfFrom(s, t, p) ==
    LET hits == {i \in p..Len(s) : s[i].t = t}
    IN  IF hits = {} THEN 0 ELSE CHOOSE i \in hits : \A j \in hits : i <= j

Includes(s, t) == IndexOfFrom(s, t, 1) # 0

\* s with the token at position i removed
RemoveAt(s, i) == SubSeq(s, 1, i - 1) \o SubSeq(s, i + 1, Len(s))

\* String.prototype.replace(marker, ''): the first occurrence only
ReplaceFirst(s, t) ==
    LET i == IndexOfFrom(s, t, 1)
    IN  IF i = 0 THEN s ELSE RemoveAt(s, i)

\* chunk.replace('data: ', '').replace("data:", ""): the first "data: " goes,
\* and of the next one the text "data:" goes and its blank stays
CleanChunk(chunk) ==
    LET once == ReplaceFirst(chunk, "data")
        i == IndexOfFrom(once, "data", 1)
    IN  IF i = 0 THEN once ELSE [once EXCEPT ![i] = WS]

\* The matches of /<x-system-action>([\s\S]*?)<\/x-system-action>/g from
\* position p on, as position pairs: lazy, left to right, not overlapping
RECURSIVE MatchesFrom(_, _)
MatchesFrom(s, p) ==
    LET i == IndexOfFrom(s, "open", p)
        j == IF i = 0 THEN 0 ELSE IndexOfFrom(s, "close", i + 1)
    IN  IF i = 0 \/ j = 0 THEN <<>>
        ELSE <<[from |-> i, to |-> j]>> \o MatchesFrom(s, j + 1)

MatchedActions(s) == MatchesFrom(s, 1)

\* summedChunk.replaceAll(regex, '')
RECURSIVE DropMatches(_, _, _)
DropMatches(s, ms, p) ==
    IF ms = <<>> THEN SubSeq(s, p, Len(s))
    ELSE SubSeq(s, p, Head(ms).from - 1) \o DropMatches(s, Tail(ms), Head(ms).to + 1)

ReplaceAllBlocks(s) == DropMatches(s, MatchedActions(s), 1)

\* The early return of parseActionsFromChunk: taken when the open marker is
\* there and no close marker is
EarlyReturn(s) == Includes(s, "open") /\ ~Includes(s, "close")

\* What the early return gives back (startIndex is 0-based in the program)
EarlyText(s) ==
    LET startIndex == IndexOfFrom(s, "open", 1) - 1
    IN  IF startIndex # 0 THEN SubSeq(s, startIndex + 1, Len(s)) ELSE s

\* Leading and trailing whitespace, which JSON.parse skips
RECURSIVE TrimLeft(_)
TrimLeft(s) == IF s # <<>> /\ Head(s).t = "ws" THEN TrimLeft(Tail(s)) ELSE s

RECURSIVE TrimRight(_)
TrimRight(s) ==
    IF s # <<>> /\ s[Len(s)].t = "ws" THEN TrimRight(SubSeq(s, 1, Len(s) - 1)) ELSE s

Trim(s) == TrimLeft(TrimRight(s))

\* JSON.parse of the text of a match with the two markers replaced away.
\* ok = FALSE stands for the SyntaxError.
JSONParse(text) ==
    LET s == Trim(text)
        n == Len(s)
        obj(content) == ActionType(s[1].id, s[1].action, s[1].immediate,
                                   s[1].file_path, s[1].command, content)
    IN  IF n = 1 /\ s[1].t = "obj"
        THEN [ok |-> TRUE, value |-> obj(Undefined)]
        ELSE IF n >= 2 /\ s[1].t = "objc" /\ s[n].t = "endc"
                /\ \A i \in 2..(n - 1) : s[i].t \in StringChars
        THEN [ok |-> TRUE, value |-> obj(Defined(SubSeq(s, 2, n - 1)))]
        ELSE [ok |-> FALSE, value |-> NoAction]

\* action.replace('<x-system-action>', '').replace('</x-system-action>', '')
MatchText(s, m) == ReplaceFirst(ReplaceFirst(SubSeq(s, m.from, m.to), "open"), "close")

----------------------------------------------------------------------------
(* The ledger *)

\* The `data` field of a ledger entry: the action object at first, the result
\* object {success, message, immediate, isCommandOutput} afterwards
ActionData == [isResult |-> FALSE, success |-> FALSE, immediate |-> FALSE,
               isCommandOutput |-> FALSE]
ResultData(success, immediate, isCommandOutput) ==
    [isResult |-> TRUE, success |-> success, immediate |-> immediate,
     isCommandOutput |-> isCommandOutput]

Absent == [status |-> "absent", action |-> "", immediate |-> FALSE, data |-> ActionData]

addLocalAction(la, action, status) ==
    [la EXCEPT ![action.id] = [status |-> status, action |-> action.action,
                               immediate |-> action.immediate, data |-> ActionData]]

\* status: status || localActions[actionId]?.status || "pending"; the empty
\* string stands for an omitted status argument
updateLocalAction(la, actionId, data, status) ==
    LET old == la[actionId]
        st == IF status # "" THEN status
              ELSE IF old.status # "absent" THEN old.status ELSE "pending"
    IN  [la EXCEPT ![actionId] = [old EXCEPT !.data = data, !.status = st]]

Terminal == {"success", "error"}

\* The check as it would be if it let a finished action through
AlreadyHandled_InProgressOnly(la, id) == la[id].status = "in-progress"

\* The check as it would be if it let a running action through
AlreadyHandled_TerminalOnly(la, id) == la[id].status \in Terminal

\* Line 335: the action exists and is not pending
AlreadyHandled(la, id) == la[id].status # "absent" /\ la[id].status # "pending"

----------------------------------------------------------------------------
(* Messages, requests and the state a handler works on *)

\* The JSON text a handler passes to addActionResponseToMessages; a missing
\* isCommandOutput key reads as FALSE
Result(success, isCommandOutput) ==
    [success |-> success, isCommandOutput |-> isCommandOutput]
NoResult == Result(FALSE, FALSE)

Msg(kind, role, hidden, content, actionId, action, result) ==
    [kind |-> kind, role |-> role, hidden |-> hidden, content |-> content,
     actionId |-> actionId, action |-> action, result |-> result]

Greeting == Msg("greeting", "assistant", FALSE, <<>>, 0, "", NoResult)
UserMsg == Msg("user", "user", FALSE, <<>>, 0, "", NoResult)
ErrorMsg == Msg("error", "assistant", FALSE, <<>>, 0, "", NoResult)
StreamMsg(content) == Msg("stream", "assistant", FALSE, content, 0, "", NoResult)
\* content: JSON.stringify({actionId, result, action}), hidden: true
ActionResponseMsg(actionId, result, action) ==
    Msg("actionResponse", "assistant", TRUE, <<>>, actionId, action, result)

\* One fetch('/api/ai/chat') and the read loop that follows it.
\*   kind: "user" (handleSendMessage) or "action" (handleActionSendMessage)
\*   cl:   the render scope whose `messages` the call reads
\*   by:   the action whose result triggered the call (0 for a user send)
Request(kind, cl, by) ==
    [kind |-> kind, cl |-> cl, by |-> by, st |-> "sent", chunks |-> <<>>,
     chunkSum |-> <<>>, msgIx |-> 0]

\* res: how the sandbox call of the handler settled ("none" while it has not)
\* wc:  what useStore.getState().webcontainerInstance gave the handler
IdleHandler == [pc |-> "idle", cl |-> 0, req |-> 0, a |-> NoAction, res |-> "none",
                wc |-> "null"]

\* A call on the sandbox; `at` is the ledger status of the action when the
\* call is made
Call(id, op, path, content) ==
    [id |-> id, op |-> op, path |-> path, content |-> content, at |-> "absent"]

\* The mutable state seen by one synchronous run of code
Cur ==
    [wc |-> webcontainerInstance, la |-> localActions, msgs |-> messages,
     reqs |-> requests, hs |-> handlers, calls |-> sandboxCalls,
     skips |-> skipLog, started |-> <<>>, log |-> ledgerLog]

Commit(st) ==
    /\ localActions' = st.la
    /\ messages' = st.msgs
    /\ requests' = st.reqs
    /\ handlers' = st.hs
    /\ sandboxCalls' = st.calls
    /\ skipLog' = st.skips
    /\ ledgerLog' = st.log

----------------------------------------------------------------------------
(* Re-entry *)

\* The synchronous part of handleActionSendMessage: the fetch is called with
\* the `messages` of the render scope the function belongs to
handleActionSendMessage(st, cl, by) ==
    [st EXCEPT !.reqs = Append(st.reqs, Request("action", cl, by))]

\* The condition as it would be without the command-output clause
ShouldReenter_ImmediateOnly(immediate, actionData) == immediate

\* Line 140
ShouldReenter(immediate, actionData) == immediate \/ actionData.isCommandOutput

addActionResponseToMessages(st, actionId, actionResponseResult, action, cl) ==
    LET st1 == [st EXCEPT !.msgs =
                   Append(st.msgs, ActionResponseMsg(actionId, actionResponseResult, action))]
        immediate == st1.la[actionId].immediate
    IN  IF ShouldReenter(immediate, actionResponseResult)
        THEN handleActionSendMessage(st1, cl, actionId)
        ELSE st1

----------------------------------------------------------------------------
(* Handlers: the code up to the first await, and the two ways a handler ends *)

\* Records the status the ledger holds for id after a write to it
Logged(st, id) == [st EXCEPT !.log[id] = Append(@, st.la[id].status)]

Begin(st, action, cl, req) ==
    Logged([st EXCEPT !.la = addLocalAction(st.la, action, "in-progress"),
                      !.hs[action.id] = [pc |-> "run", cl |-> cl, req |-> req,
                                         a |-> action, res |-> "none",
                                         wc |-> st.wc],
                      !.started = Append(st.started, action.id)],
           action.id)

\* updateLocalAction(..., "success") and the success message
Succeed(st, action, data, result) ==
    LET st1 == Logged([st EXCEPT !.la = updateLocalAction(st.la, action.id, data, "success"),
                                 !.hs[action.id].pc = "done"],
                      action.id)
    IN  addActionResponseToMessages(st1, action.id, result, action.action,
                                    st.hs[action.id].cl)

\* The catch block: updateLocalAction(..., "error") and the error message,
\* which is {success: false, error} (and command, for run_command)
Fail(st, action, data) ==
    LET st1 == Logged([st EXCEPT !.la = updateLocalAction(st.la, action.id, data, "error"),
                                 !.hs[action.id].pc = "done"],
                      action.id)
    IN  addActionResponseToMessages(st1, action.id, Result(FALSE, FALSE), action.action,
                                    st.hs[action.id].cl)

Await(st, action, pc, call) ==
    [st EXCEPT !.hs[action.id].pc = pc,
               !.calls = Append(st.calls, [call EXCEPT !.at = st.la[action.id].status])]

createFileAction(st, action, cl, req) ==
    LET st1 == Begin(st, action, cl, req)
    IN  IF st1.wc = "null" \/ action.file_path = ""
        THEN Fail(st1, action, ResultData(FALSE, FALSE, FALSE))
        ELSE Await(st1, action, "fs",
                   Call(action.id, "writeFile", action.file_path, Defined(<<>>)))

readFileAction(st, action, cl, req) ==
    LET st1 == Begin(st, action, cl, req)
    IN  IF st1.wc = "null" \/ action.file_path = ""
        THEN Fail(st1, action, ResultData(FALSE, action.immediate, FALSE))
        ELSE Await(st1, action, "fs",
                   Call(action.id, "readFile", action.file_path, Undefined))

\* The handler as it would be without the check of the content
writeFileAction_NoContentCheck(st, action, cl, req) ==
    LET st1 == Begin(st, action, cl, req)
    IN  IF st1.wc = "null" \/ action.file_path = ""
        THEN Fail(st1, action, ResultData(FALSE, action.immediate, FALSE))
        ELSE Await(st1, action, "fs",
                   Call(action.id, "writeFile", action.file_path, action.content))

writeFileAction(st, action, cl, req) ==
    LET st1 == Begin(st, action, cl, req)
    IN  IF st1.wc = "null" \/ action.file_path = "" \/ ~action.content.def
        THEN Fail(st1, action, ResultData(FALSE, action.immediate, FALSE))
        ELSE Await(st1, action, "fs",
                   Call(action.id, "writeFile", action.file_path, action.content))

\* The handler as it would be without the check of the command
runCommandAction_NoCommandCheck(st, action, cl, req) ==
    LET st1 == Begin(st, action, cl, req)
    IN  IF st1.wc = "null"
        THEN Fail(st1, action, ResultData(FALSE, action.immediate, TRUE))
        ELSE Await(st1, action, "spawn",
                   Call(action.id, "spawn", action.command, Undefined))

runCommandAction(st, action, cl, req) ==
    LET st1 == Begin(st, action, cl, req)
    IN  IF st1.wc = "null" \/ action.command = ""
        THEN Fail(st1, action, ResultData(FALSE, action.immediate, TRUE))
        ELSE Await(st1, action, "spawn",
                   Call(action.id, "spawn", action.command, Undefined))

readFileAndSendToAiChatSession(st, action, cl, req) ==
    LET st1 == Begin(st, action, cl, req)
    IN  IF st1.wc = "null" \/ action.file_path = ""
        THEN Fail(st1, action, ResultData(FALSE, action.immediate, FALSE))
        ELSE Await(st1, action, "fs",
                   Call(action.id, "readFile", action.file_path, Undefined))

\* The data and the message of the success path of each handler
SuccessData(action) ==
    ResultData(TRUE,
               IF action.action = "create_file" THEN FALSE ELSE action.immediate,
               action.action = "run_command")

SuccessResult(action) == Result(TRUE, action.action = "run_command")

ErrorData(action) ==
    ResultData(FALSE,
               IF action.action = "create_file" THEN FALSE ELSE action.immediate,
               action.action = "run_command")

----------------------------------------------------------------------------
(* parseActionsFromChunk *)

\* The switch of lines 340-358
Dispatch(st, parsed, cl, req) ==
    CASE parsed.action = "create_file" -> createFileAction(st, parsed, cl, req)
      [] parsed.action = "write_file" -> writeFileAction(st, parsed, cl, req)
      [] parsed.action = "run_command" -> runCommandAction(st, parsed, cl, req)
      [] parsed.action = "read_file" -> readFileAction(st, parsed, cl, req)
      [] parsed.action = "read_file_and_send_to_ai_chat_session" ->
             readFileAndSendToAiChatSession(st, parsed, cl, req)
      [] OTHER -> st

\* The body of the forEach callback for one match
OnMatch(st, s, m, cl, req) ==
    LET json == JSONParse(MatchText(s, m))
        parsed == json.value
    IN  IF ~json.ok THEN st
        ELSE IF AlreadyHandled(st.la, parsed.id)
        THEN [st EXCEPT !.skips = @ \cup {<<parsed.id, st.la[parsed.id].status>>}]
        ELSE Dispatch(st, parsed, cl, req)

\* The loop as it would be with the try block around the whole of it: the
\* first payload that does not parse ends the loop
RECURSIVE ForEachMatch_AbortOnError(_, _, _, _, _)
ForEachMatch_AbortOnError(st, s, ms, cl, req) ==
    IF ms = <<>> \/ ~JSONParse(MatchText(s, Head(ms))).ok THEN st
    ELSE ForEachMatch_AbortOnError(OnMatch(st, s, Head(ms), cl, req), s, Tail(ms), cl, req)

RECURSIVE ForEachMatch(_, _, _, _, _)
ForEachMatch(st, s, ms, cl, req) ==
    IF ms = <<>> THEN st
    ELSE ForEachMatch(OnMatch(st, s, Head(ms), cl, req), s, Tail(ms), cl, req)

\* Returns the state after the call and the text to display
parseActionsFromChunk(st, summedChunk, cl, req) ==
    IF EarlyReturn(summedChunk)
    THEN [st |-> st, text |-> EarlyText(summedChunk)]
    ELSE [st |-> ForEachMatch(st, summedChunk, MatchedActions(summedChunk), cl, req),
          text |-> ReplaceAllBlocks(summedChunk)]

----------------------------------------------------------------------------
(* The backend and the network *)

\* controller.enqueue(encoder.encode(`data: ${chunk}`))
Frame(chunk) == <<DATA>> \o chunk

Response(ok, chunks) == [ok |-> ok, chunks |-> chunks]

\* Commands that keep running (a development server): process.exit stays pending
LongRunning == {"npm run dev"}

\* All ways of cutting s into at most k non-empty chunks
RECURSIVE Splits(_, _)
Splits(s, k) ==
    IF s = <<>> THEN {<<>>}
    ELSE IF k <= 1 THEN {<<s>>}
    ELSE {<<s>>} \cup
         UNION {{<<SubSeq(s, 1, i)>> \o rest : rest \in Splits(SubSeq(s, i + 1, Len(s)), k - 1)}
                : i \in 1..(Len(s) - 1)}

----------------------------------------------------------------------------
(* Initial state *)

NoParse == [req |-> 0, input |-> <<>>, output |-> <<>>, started |-> <<>>,
            before |-> [i \in Ids |-> "absent"]]

\* Action objects the backend puts in its answers
CreateFile(id, immediate, file_path) ==
    ActionType(id, "create_file", immediate, file_path, "", Undefined)
WriteFile(id, immediate, file_path, content) ==
    ActionType(id, "write_file", immediate, file_path, "", content)
ReadFile(id, immediate, file_path) ==
    ActionType(id, "read_file", immediate, file_path, "", Undefined)
ReadAndSend(id, immediate, file_path) ==
    ActionType(id, "read_file_and_send_to_ai_chat_session", immediate, file_path, "", Undefined)
RunCommand(id, immediate, command) ==
    ActionType(id, "run_command", immediate, "", command, Undefined)
ListFiles(id, immediate) ==
    ActionType(id, "list_files", immediate, "", "", Undefined)

\* Every text of at most n tokens over the alphabet A
RECURSIVE TextsUpTo(_, _)
TextsUpTo(A, n) ==
    IF n = 0 THEN {<<>>}
    ELSE LET T == TextsUpTo(A, n - 1)
         IN  T \cup {Append(t, x) : t \in T, x \in A}

Alphabet ==
    {ChA, OPEN, CLOSE, BAD,
     Stringify(CreateFile(1, FALSE, "./x.txt"))[1],
     Stringify(RunCommand(2, FALSE, "ls"))[1]}

\* One answer, cut in every way: every short text over the alphabet
ShortTapes ==
    {<<Response(TRUE, cs)>> : cs \in UNION {Splits(t, MaxChunks) : t \in TextsUpTo(Alphabet, MaxLen)}}

\* Conversations of several answers
Scripts ==
    { \* prose and two blocks; the command output brings an immediate read
      << <<ChA>> \o Block(WriteFile(1, FALSE, "./x.txt", Defined(<<ChA>>))) \o <<ChB>>
             \o Block(RunCommand(2, FALSE, "ls")),
         Block(ReadFile(3, TRUE, "./x.txt")) >>,
      \* an immediate write, then a development server
      << Block(WriteFile(1, TRUE, "./x.txt", Defined(<<ChA, OPEN>>))) \o <<ChA>>,
         <<WS>> \o Block(RunCommand(2, TRUE, "npm run dev")) >>,
      \* commands without a command, and a kind the client does not know
      << Block(RunCommand(1, FALSE, "")) \o Block(ListFiles(2, TRUE))
             \o Block(RunCommand(3, TRUE, "")) >>,
      \* the same id twice in one answer and once more in the next
      << Block(CreateFile(1, TRUE, "./x.txt")) \o <<ChA>>
             \o Block(ReadFile(1, FALSE, "./x.txt")),
         Block(CreateFile(1, FALSE, "./x.txt")) \o Block(ReadFile(2, FALSE, "")) >>,
      \* an answer cut off inside its second block
      << <<ChA>> \o Block(CreateFile(1, FALSE, "./x.txt")) \o <<ChB, OPEN>>
             \o <<Stringify(WriteFile(2, FALSE, "./x.txt", Defined(<<ChA>>)))[1], ChA>> >>,
      \* a block that is not JSON between two blocks that are
      << Block(CreateFile(1, FALSE, "./x.txt")) \o <<OPEN, BAD, CLOSE>>
             \o Block(ReadFile(2, FALSE, "./x.txt")) >>,
      \* missing fields and a path that leaves the root
      << Block(ReadAndSend(1, TRUE, "./x.txt"))
             \o Block(WriteFile(2, FALSE, "./x.txt", Undefined))
             \o Block(CreateFile(3, FALSE, "../../etc/passwd")) >> }

\* An answer in one piece
Whole(text) == Response(TRUE, IF text = <<>> THEN <<>> ELSE <<text>>)

\* The tapes of a script: its first answer cut in every way, the later
\* answers in one piece
TapesOf(script) ==
    {<<Response(TRUE, cs)>> \o [i \in 1..(Len(script) - 1) |-> Whole(script[i + 1])] :
         cs \in Splits(Head(script), MaxChunks)}

Tapes ==
    ShortTapes \cup UNION {TapesOf(s) : s \in Scripts} \cup {<<Response(FALSE, <<>>)>>}

\* Action objects of every kind the client runs; the content of a write_file
\* is any short text, the two marker strings included
Payloads ==
    {CreateFile(1, FALSE, "./x.txt"), ReadFile(1, FALSE, "./x.txt"),
     ReadAndSend(1, TRUE, "./x.txt"), RunCommand(1, TRUE, "ls"),
     RunCommand(1, FALSE, "npm run dev")} \cup
    {WriteFile(1, immediate, "./x.txt", Defined(text)) :
         immediate \in BOOLEAN, text \in TextsUpTo({ChA, WS, OPEN, CLOSE}, MaxContent)}

\* Answers that are one action block and nothing else, in one chunk
PayloadTapes ==
    {<<Whole(Block(a))>> : a \in Payloads} \cup {<<Response(FALSE, <<>>)>>}

----------------------------------------------------------------------------
(* Server side: the file tools (src/unnamed/part_004) *)

\* Characters of a path.  "g" stands for the text "git", "n" for the text
\* "node_modules" and "x" for the text "next".
Slash == "/"
DotDot == <<".", ".">>
Dot == <<".">>

\* process.cwd(): the directory w under the directory r
WORKSPACE_ROOT == <<Slash, "r", Slash, "w">>

\* Names a path segment may have: w2 is a sibling of the root whose name
\* extends the root's name
Segments == {DotDot, Dot, <<"w">>, <<"w", "2">>, <<"s">>, <<".", "g">>}

\* A path argument: its segments, and whether it starts with a slash
PathsUpTo(n) ==
    [abs : BOOLEAN, segs : UNION {[1..k -> Segments] : k \in 0..n}]

RECURSIVE Join(_)
Join(segs) ==
    IF segs = <<>> THEN <<>>
    ELSE IF Len(segs) = 1 THEN Head(segs)
    ELSE Head(segs) \o <<Slash>> \o Join(Tail(segs))

\* The string of a path argument
PathString(p) == (IF p.abs THEN <<Slash>> ELSE <<>>) \o Join(p.segs)

\* The segments of an absolute path string
RECURSIVE SplitPath(_, _)
SplitPath(str, cur) ==
    IF str = <<>> THEN (IF cur = <<>> THEN <<>> ELSE <<cur>>)
    ELSE IF Head(str) = Slash
    THEN (IF cur = <<>> THEN <<>> ELSE <<cur>>) \o SplitPath(Tail(str), <<>>)
    ELSE SplitPath(Tail(str), Append(cur, Head(str)))

\* Normalisation of path.resolve: "." goes, ".." removes the segment before
\* it and stays at the filesystem root
RECURSIVE Normalize(_, _)
Normalize(segs, acc) ==
    IF segs = <<>> THEN acc
    ELSE IF Head(segs) = Dot THEN Normalize(Tail(segs), acc)
    ELSE IF Head(segs) = DotDot
    THEN Normalize(Tail(segs), IF acc = <<>> THEN acc ELSE SubSeq(acc, 1, Len(acc) - 1))
    ELSE Normalize(Tail(segs), Append(acc, Head(segs)))

\* The string of an absolute path given by its segments
RECURSIVE AbsoluteString(_)
AbsoluteString(segs) ==
    IF segs = <<>> THEN <<>>
    ELSE <<Slash>> \o Head(segs) \o AbsoluteString(Tail(segs))

\* path.resolve(WORKSPACE_ROOT, relativePath)
PathResolve(root, p) ==
    LET segs == Normalize(IF p.abs THEN p.segs ELSE SplitPath(root, <<>>) \o p.segs, <<>>)
    IN  IF segs = <<>> THEN <<Slash>> ELSE AbsoluteString(segs)

\* String.prototype.startsWith
StartsWith(str, prefix) ==
    Len(prefix) <= Len(str) /\ SubSeq(str, 1, Len(prefix)) = prefix

\* String.prototype.includes for a text of several characters
IncludesText(str, text) ==
    \E i \in 1..(Len(str) - Len(text) + 1) : SubSeq(str, i, i + Len(text) - 1) = text

\* relativePath.includes("node_modules") || includes(".git") || includes(".next")
Sensitive(relativePath) ==
    \/ IncludesText(relativePath, <<"n">>)
    \/ IncludesText(relativePath, <<".", "g">>)
    \/ IncludesText(relativePath, <<".", "x">>)

ToolResult(success, error) == [success |-> success, error |-> error]

IdleTool == [pc |-> "idle", tool |-> "", relativePath |-> [abs |-> FALSE, segs |-> <<>>],
             absolutePath |-> <<>>, fsCalls |-> <<>>, result |-> ToolResult(FALSE, "")]

\* The two checks that come before the filesystem call, the same in both tools
ToolCall(tool, op, p) ==
    LET absolutePath == PathResolve(WORKSPACE_ROOT, p)
        run == [IdleTool EXCEPT !.tool = tool, !.relativePath = p,
                                !.absolutePath = absolutePath]
    IN  IF ~StartsWith(absolutePath, WORKSPACE_ROOT)
        THEN [run EXCEPT !.pc = "done", !.result = ToolResult(FALSE, "invalid path")]
        ELSE IF Sensitive(PathString(p))
        THEN [run EXCEPT !.pc = "done", !.result = ToolResult(FALSE, "sensitive")]
        ELSE [run EXCEPT !.pc = "fs", !.fsCalls = <<[op |-> op, path |-> absolutePath]>>]

----------------------------------------------------------------------------
(* Server side: the tool-call loop of the projects route *)

\* The keys of Functions
FunctionNames ==
    {"create_file", "write_file", "read_file", "list_files", "run_command",
     "create_directory", "send_mail"}

\* Functions that return before any call to the client
AnswersItself == {"create_file", "send_mail"}

\* Functions that read status and data out of the client's response
ReadsResponse == {"read_file", "list_files", "run_command", "create_directory"}

\* The names the model may put in a tool call
ToolNames ==
    {"create_file", "write_file", "read_file", "list_files", "run_command",
     "create_directory", "delete_file"}

\* What callClientsideFunction resolves with: the client's response, which
\* may be no object at all, or the timeout value {status: false}
ClientResponses == {"ok", "failed", "timeout", "undefined"}

\* The data of a result: the text a function of Functions writes itself, or
\* what callClientsideFunction resolved with
OwnData == "successfully"
ClientData(response) ==
    IF response = "timeout" THEN "Timeout waiting for response" ELSE "data of the client"

\* One element of functionResults as JSON.stringify writes it: the key
\* result is left out when the function returned undefined
FunctionResult(name, hasResult, status, data, hasError) ==
    [name |-> name, hasResult |-> hasResult, status |-> status, data |-> data,
     hasError |-> hasError]

IdleLoop == [pc |-> "idle", toolCalls |-> <<>>, i |-> 0, functionResults |-> <<>>,
             responses |-> <<>>]

\* The value a function of Functions returns for a response of the client;
\* threw = TRUE stands for the TypeError of reading status out of undefined
FunctionOutcome(name, response) ==
    IF name \notin ReadsResponse
    THEN [threw |-> FALSE, entry |-> FunctionResult(name, FALSE, FALSE, "", FALSE)]
    ELSE IF response = "undefined"
    THEN [threw |-> TRUE, entry |-> FunctionResult(name, FALSE, FALSE, "", TRUE)]
    ELSE [threw |-> FALSE,
          entry |-> FunctionResult(name, TRUE, response = "ok", ClientData(response), FALSE)]

----------------------------------------------------------------------------
(* Server side: getChatCompletionStream *)

Providers == {"google", "deepseek"}

\* What one chunk of generateContentStream carries in its first part
ChunkKinds == {"text", "functionCall", "functionCallNoArgs", "empty"}

\* The errors the Google client throws
StreamErrors == {"API key not valid", "other"}

IdleStream == [pc |-> "idle", provider |-> "", chunks |-> <<>>, log |-> <<>>]

\* The catch block of GoogleGenAIService.getChatCompletionStream
CatchStreamError(log, error) ==
    IF error = "API key not valid" THEN log \o <<"onError", "onError">>
    ELSE Append(log, "onError")

----------------------------------------------------------------------------
(* Server side: AIService.getChatCompletion *)

\* The models a request may name
Models == {"gemini-2.0-flash", "deepseek-chat"}

\* One part of the content of a candidate: text, text that is the empty
\* string, a function call with its name, or a part of another type
Part(kind, name) == [kind |-> kind, name |-> name]

Parts ==
    {Part("text", ""), Part("emptyText", ""), Part("other", ""),
     Part("functionCall", "read_file"), Part("functionCall", "run_command")}

PartLists == UNION {[1..k -> Parts] : k \in 0..MaxParts}

FinishReasons == {"none", "STOP", "SAFETY"}

\* What the backend did with the request
NoBackend ==
    [outcome |-> "none", error |-> "", ok |-> FALSE, choices |-> FALSE,
     candidate |-> FALSE, finishReason |-> "none", parts |-> <<>>]

\* generateContent resolved: parts = <<>> stands for a candidate without
\* content, without parts or with an empty list of parts
GoogleResponse(candidate, finishReason, parts) ==
    [NoBackend EXCEPT !.outcome = "resolved", !.candidate = candidate,
                      !.finishReason = finishReason, !.parts = parts]

\* generateContent or fetch rejected
Rejected(error) == [NoBackend EXCEPT !.outcome = "rejected", !.error = error]

\* fetch resolved: response.ok, and whether the body has a first choice
FetchResponse(ok, choices) ==
    [NoBackend EXCEPT !.outcome = "resolved", !.ok = ok, !.choices = choices]

GoogleResponses ==
    {GoogleResponse(FALSE, "none", <<>>)} \cup
    {GoogleResponse(TRUE, f, ps) : f \in FinishReasons, ps \in PartLists}

\* What the caller of getChatCompletion gets: an envelope with text, with
\* toolCalls or with error, or an exception
ChatResult(kind, toolCalls, error) ==
    [kind |-> kind, toolCalls |-> toolCalls, error |-> error]

NoChatResult == ChatResult("none", <<>>, "")

IdleChat ==
    [pc |-> "idle", provider |-> "", model |-> "", backend |-> NoBackend,
     result |-> NoChatResult]

\* Lines 196-237 of GoogleGenAIService.getChatCompletion
GoogleResult(response) ==
    IF ~response.candidate
    THEN ChatResult("error", <<>>, "No response candidates found.")
    ELSE IF response.parts = <<>>
    THEN IF response.finishReason \notin {"none", "STOP"}
         THEN ChatResult("error", <<>>, "Generation stopped")
         ELSE ChatResult("error", <<>>, "No content parts found in response.")
    ELSE LET firstPart == response.parts[1]
         IN  IF firstPart.kind = "text"
             THEN ChatResult("text", <<>>, "")
             ELSE IF firstPart.kind = "functionCall"
             THEN ChatResult("toolCalls", <<firstPart.name>>, "")
             ELSE ChatResult("error", <<>>, "Unknown response part type.")

\* The catch block of GoogleGenAIService.getChatCompletion
GoogleCatch(error) ==
    IF error = "API key not valid"
    THEN ChatResult("error", <<>>, "Google AI API key is invalid or missing.")
    ELSE ChatResult("error", <<>>, "Google AI Error")

\* DeepSeekService.makeApiRequest throws when response.ok is false; line 778
\* of AIService.getChatCompletion reads response.choices[0].message.content
DeepSeekResult(response) ==
    IF ~response.ok THEN ChatResult("thrown", <<>>, "API request failed")
    ELSE IF ~response.choices THEN ChatResult("thrown", <<>>, "TypeError")
    ELSE ChatResult("text", <<>>, "")

\* The catch block of AIService.getChatCompletion: console.error, throw error
AIServiceCatch(result) == result

----------------------------------------------------------------------------
(* Server side: SocketService (middleware.ts) and the socket server *)

UserIds == {"u1", "u2"}

\* What an execution context answers: {status: true, ...} or {status: false, ...}
Answers == {"ok", "failed"}

\* {status: false, data: "Timeout waiting for response"}
TimeoutEnvelope == "timeout"

\* One call of callClientsideFunction: its promise, its timer, and what its
\* listener and its timer have passed to resolve, in order.  replyTo: for
\* each of these, the call whose request it answers (a timer answers its own
\* call); online: the user named by the call has been in the users map
\* since the call; quiet: nothing of the call was under way when the timer
\* fired.
RpcCall(userId, online) ==
    [userId |-> userId, st |-> "pending", value |-> "none", timer |-> "armed",
     events |-> <<>>, replyTo |-> <<>>, online |-> online, quiet |-> FALSE]

\* resolve as it would be if a settled promise could be settled again
resolve_LastWins(call, v) ==
    [call EXCEPT !.st = "resolved", !.value = v]

\* resolve of a promise: the first call settles it, a later call does nothing
resolve(call, v) ==
    IF call.st = "pending"
    THEN [call EXCEPT !.st = "resolved", !.value = v]
    ELSE call

\* socket: the field of line 871; listeners: the calls whose once-listener is
\* still registered; sendBuffer: the calls whose emit has not left the socket
IdleService ==
    [socket |-> "null", calls |-> <<>>, listeners |-> {}, sendBuffer |-> <<>>]

\* The sockets of the system namespace: the one of SocketService, and one
\* of another client of that namespace
SystemSockets == {"service", "console"}

\* handshake.query.userId of a socket of the system namespace: connect()
\* calls io(url + "/system") with no query
SystemQuery(s) == IF s = "service" THEN "" ELSE "u1"

\* users: the Map of line 39 (0: no entry); sockets: the sockets of the
\* default namespace; system: those of the system namespace; inbox: the
\* clientside-call events the server has not handled yet; relayed: those it
\* has emitted to a user
IdleServer ==
    [users |-> [u \in UserIds |-> 0],
     sockets |-> [s \in 1..MaxSockets |-> [userId |-> "", st |-> "none"]],
     system |-> [s \in SystemSockets |-> "none"],
     inbox |-> <<>>,
     relayed |-> <<>>]

\* The request of call i of the service is still on its way to an answer
InTransit(i) ==
    \/ /\ \E k \in DOMAIN socketService.sendBuffer : socketService.sendBuffer[k] = i
       /\ socketServer.system["service"] # "disconnected"
    \/ \E k \in DOMAIN socketServer.inbox :
           socketServer.inbox[k] = [from |-> "service", call |-> i]
    \/ \E k \in DOMAIN socketServer.relayed :
           LET m == socketServer.relayed[k]
           IN  m.from = "service" /\ m.call = i /\ ~m.answered
                   /\ socketServer.sockets[m.to].st = "open"

----------------------------------------------------------------------------
(* Server side: the provider of the projects route *)

\* Lines 87-92 of route.ts: the instance all requests share
NewAIService ==
    [currentProvider |-> "google", currentModel |-> "gemini-1.5-pro-preview-0325"]

\* AIService.switchProvider
switchProvider(provider, model) ==
    [currentProvider |-> provider, currentModel |-> model]

\* One POST: the provider and the model of its body (the empty string: not
\* given) and, for each completion it has asked for, the provider and the
\* model getChatCompletion read from the instance
NoPost == [pc |-> "none", provider |-> "", model |-> "", completions |-> <<>>]

----------------------------------------------------------------------------
(* Server side: the context cache of a provider service *)

\* A prompt: its first 50 characters and the rest of it
Prompts == [head : {"h1", "h2"}, rest : {"", "r"}]

\* `project:${prompt.substring(0, 50)}`
CacheKey(prompt) == prompt.head

\* Map.prototype.set on the entries in insertion order: the value of a key
\* that is present is replaced where it stands, a new key goes to the end
MapSet(entries, key, value) ==
    IF \E k \in DOMAIN entries : entries[k].key = key
    THEN [k \in DOMAIN entries |->
             IF entries[k].key = key THEN [key |-> key, value |-> value]
             ELSE entries[k]]
    ELSE Append(entries, [key |-> key, value |-> value])

\* entries: the Map of line 95; prompts: the prompts given to
\* generateProjectStructure, in call order; readAt: how many of them had
\* been given when generateFileContent last ran (0: it has not run);
\* projectContext: what it took as context
EmptyCache ==
    [entries |-> <<>>, prompts |-> <<>>, readAt |-> 0,
     projectContext |-> [head |-> "", rest |-> ""]]

\* Lines 561-569: the value of contextKeys[0], the empty string without keys
ProjectContext(entries) ==
    IF entries = <<>> THEN [head |-> "", rest |-> ""] ELSE entries[1].value

----------------------------------------------------------------------------
(* The store of the browser: generateProject (src/unnamed/part_005) *)

\* isProjectGenerating and generationProgress.error of the store (the
\* message, "null" for none), and the calls of generateProject: where each
\* stands and how many awaits of writeFiles it has before it
NewStore == [isProjectGenerating |-> FALSE, error |-> "null", calls |-> <<>>]

GenerateCall(pc, writes) == [pc |-> pc, writes |-> writes]

\* The positions at which a call waits for a promise
Awaiting == {"fetch", "errorJson", "json", "writing"}

\* catch and finally of generateProject, lines 168-178
GenerateCatch(store, c, message) ==
    [store EXCEPT !.error = message,
                  !.isProjectGenerating = FALSE,
                  !.calls[c].pc = "failed"]

\* finally alone, after writeFiles has returned
GenerateFinally(store, c) ==
    [store EXCEPT !.isProjectGenerating = FALSE,
                  !.calls[c].pc = "done"]

----------------------------------------------------------------------------
(* Server side: POST of the project files route (src/unnamed/part_000) *)

FilePaths == {"a.ts", "b.ts"}

\* files: the rows of the file table for the project, in creation order, each
\* with the request that created it; uniquePath: the table refuses a second
\* row with the path of an existing one (the schema is not among the
\* sources); requests: the POST requests
NoFilePost == [pc |-> "none", path |-> "", status |-> 0, existed |-> FALSE]

ProjectFiles(uniquePath) ==
    [uniquePath |-> uniquePath, files |-> <<>>,
     requests |-> [r \in 1..MaxFilePosts |-> NoFilePost]]

\* prisma.file.findFirst({where: {projectId, path}}): is there such a row
FindFirst(files, path) == \E k \in DOMAIN files : files[k].path = path

----------------------------------------------------------------------------
(* Initial states *)

ServicesIdle ==
    /\ toolRun = IdleTool
    /\ toolLoop = IdleLoop
    /\ streamCall = IdleStream
    /\ chatCall = IdleChat
    /\ socketService = IdleService
    /\ socketServer = IdleServer
    /\ aiService = NewAIService
    /\ posts = [r \in 1..MaxPosts |-> NoPost]
    /\ contextCache = EmptyCache
    /\ projectStore = NewStore

ServerIdle == ServicesIdle /\ projectFiles = ProjectFiles(FALSE)

\* The chat panel after its first render, in front of a backend that will
\* answer with one of the given tapes
ClientInit(tapes) ==
    /\ webcontainerInstance = "null"
    /\ localActions = [i \in Ids |-> Absent]
    /\ messages = <<Greeting>>
    /\ isChatLoading = FALSE
    /\ requests = <<>>
    /\ snaps = <<>>
    /\ handlers = [i \in Ids |-> IdleHandler]
    /\ sandboxCalls = <<>>
    /\ tape \in tapes
    /\ skipLog = {}
    /\ lastParse = NoParse
    /\ ledgerLog = [i \in Ids |-> <<>>]

Init == ClientInit(Tapes) /\ ServerIdle

\* The server with no chat panel talking to it
ServerInit == ClientInit({<<>>}) /\ ServerIdle

----------------------------------------------------------------------------
(* Actions *)

\* WebContainerInitializer: setWebcontainerInstance(instance) after the boot
Boot ==
    /\ webcontainerInstance = "null"
    /\ webcontainerInstance' = "ready"
    /\ UNCHANGED <<localActions, messages, isChatLoading, requests, snaps, handlers,
                   sandboxCalls, tape, skipLog, lastParse, ledgerLog, serverVars>>

\* handleSendMessage up to the await of fetch.  The handler belongs to the
\* latest render, so its `messages` is the state at the time of the submit.
handleSendMessage ==
    /\ ~isChatLoading
    /\ Len(snaps) < MaxSends
    /\ snaps' = Append(snaps, messages)
    /\ messages' = Append(messages, UserMsg)
    /\ isChatLoading' = TRUE
    /\ requests' = Append(requests, Request("user", Len(snaps) + 1, 0))
    /\ UNCHANGED <<webcontainerInstance, localActions, handlers, sandboxCalls, tape,
                   skipLog, lastParse, ledgerLog, serverVars>>

\* The answer to the next request that is answered; a request that finds the
\* tape used up stays unanswered
NextResponse == Head(tape)

\* fetch resolves with streamResponse.ok: the empty assistant message is
\* appended and the read loop starts
FetchOk(r) ==
    /\ requests[r].st = "sent"
    /\ tape # <<>>
    /\ NextResponse.ok
    /\ tape' = Tail(tape)
    /\ isChatLoading' = (requests[r].kind = "action")
    /\ messages' = Append(messages, StreamMsg(<<>>))
    /\ requests' = [requests EXCEPT ![r].st = "streaming",
                                    ![r].chunks = NextResponse.chunks,
                                    ![r].msgIx = Len(messages) + 1]
    /\ UNCHANGED <<webcontainerInstance, localActions, snaps, handlers, sandboxCalls,
                   skipLog, lastParse, ledgerLog, serverVars>>

\* fetch resolves with !streamResponse.ok: throw, catch, finally
FetchNotOk(r) ==
    /\ requests[r].st = "sent"
    /\ tape # <<>>
    /\ ~NextResponse.ok
    /\ tape' = Tail(tape)
    /\ isChatLoading' = FALSE
    /\ messages' = Append(messages, ErrorMsg)
    /\ requests' = [requests EXCEPT ![r].st = "failed"]
    /\ UNCHANGED <<webcontainerInstance, localActions, snaps, handlers, sandboxCalls,
                   skipLog, lastParse, ledgerLog, serverVars>>

\* One turn of the read loop: reader.read() gives n enqueued chunks at once,
\* the chunk is cleaned and added to chunkSum, the whole chunkSum is parsed
\* and the message is set to the text returned
ReadChunk(r, n) ==
    /\ requests[r].st = "streaming"
    /\ n \in 1..Len(requests[r].chunks)
    /\ LET chunks == requests[r].chunks
           value == Frame(chunks[1]) \o (IF n = 2 THEN Frame(chunks[2]) ELSE <<>>)
           chunkSum == requests[r].chunkSum \o CleanChunk(value)
           st0 == [Cur EXCEPT !.reqs[r].chunkSum = chunkSum,
                              !.reqs[r].chunks = SubSeq(chunks, n + 1, Len(chunks))]
           res == parseActionsFromChunk(st0, chunkSum, requests[r].cl, r)
           st1 == [res.st EXCEPT !.msgs[requests[r].msgIx].content = res.text]
       IN  /\ Commit(st1)
           /\ lastParse' = [req |-> r, input |-> chunkSum, output |-> res.text,
                            started |-> st1.started,
                            before |-> [i \in Ids |-> localActions[i].status]]
    /\ UNCHANGED <<webcontainerInstance, isChatLoading, snaps, tape, serverVars>>

\* reader.read() gives done: the loop ends and finally runs
ReadDone(r) ==
    /\ requests[r].st = "streaming"
    /\ requests[r].chunks = <<>>
    /\ requests' = [requests EXCEPT ![r].st = "done"]
    /\ isChatLoading' = FALSE
    /\ UNCHANGED <<webcontainerInstance, localActions, messages, snaps, handlers,
                   sandboxCalls, tape, skipLog, lastParse, ledgerLog, serverVars>>

\* The state in which the handler of id continues after its sandbox call
\* has settled
Settled(id, res) == [Cur EXCEPT !.hs[id].res = res]

Resume(st) ==
    /\ Commit(st)
    /\ UNCHANGED <<webcontainerInstance, isChatLoading, snaps, tape, lastParse, serverVars>>

\* webcontainerInstance.fs.writeFile / readFile resolves
FsResolve(id) ==
    /\ handlers[id].pc = "fs"
    /\ Resume(Succeed(Settled(id, "resolved"), handlers[id].a, SuccessData(handlers[id].a),
                      SuccessResult(handlers[id].a)))

\* webcontainerInstance.fs.writeFile / readFile rejects
FsReject(id) ==
    /\ handlers[id].pc = "fs"
    /\ Resume(Fail(Settled(id, "rejected"), handlers[id].a, ErrorData(handlers[id].a)))

\* webcontainerInstance.spawn resolves: the handler now awaits process.exit
SpawnResolve(id) ==
    /\ handlers[id].pc = "spawn"
    /\ handlers' = [handlers EXCEPT ![id].pc = "exit"]
    /\ UNCHANGED <<webcontainerInstance, localActions, messages, isChatLoading, requests,
                   snaps, sandboxCalls, tape, skipLog, lastParse, ledgerLog, serverVars>>

\* webcontainerInstance.spawn rejects
SpawnReject(id) ==
    /\ handlers[id].pc = "spawn"
    /\ Resume(Fail(Settled(id, "rejected"), handlers[id].a, ErrorData(handlers[id].a)))

\* process.exit resolves
ProcessExit(id) ==
    /\ handlers[id].pc = "exit"
    /\ handlers[id].a.command \notin LongRunning
    /\ Resume(Succeed(Settled(id, "resolved"), handlers[id].a, SuccessData(handlers[id].a),
                      SuccessResult(handlers[id].a)))

Next ==
    \/ Boot
    \/ handleSendMessage
    \/ \E r \in DOMAIN requests : FetchOk(r)
    \/ \E r \in DOMAIN requests : FetchNotOk(r)
    \/ \E r \in DOMAIN requests : \E n \in 1..2 : ReadChunk(r, n)
    \/ \E r \in DOMAIN requests : ReadDone(r)
    \/ \E id \in Ids : FsResolve(id)
    \/ \E id \in Ids : FsReject(id)
    \/ \E id \in Ids : SpawnResolve(id)
    \/ \E id \in Ids : SpawnReject(id)
    \/ \E id \in Ids : ProcessExit(id)

Spec == Init /\ [][Next]_vars

----------------------------------------------------------------------------
(* Actions of the file tools *)

\* readFileTool(relativePath) up to the await of fs.readFile or the return
readFileTool(p) ==
    /\ toolRun.pc = "idle"
    /\ toolRun' = ToolCall("readFileTool", "readFile", p)
    /\ UNCHANGED <<clientVars, toolLoop, streamCall, serviceVars>>

\* listFilesTool(relativePath) up to the await of fs.readdir or the return
listFilesTool(p) ==
    /\ toolRun.pc = "idle"
    /\ toolRun' = ToolCall("listFilesTool", "readdir", p)
    /\ UNCHANGED <<clientVars, toolLoop, streamCall, serviceVars>>

\* fs.readFile / fs.readdir resolves
ToolFsResolve ==
    /\ toolRun.pc = "fs"
    /\ toolRun' = [toolRun EXCEPT !.pc = "done", !.result = ToolResult(TRUE, "")]
    /\ UNCHANGED <<clientVars, toolLoop, streamCall, serviceVars>>

\* fs.readFile / fs.readdir rejects, with ENOENT or with another error
ToolFsReject(code) ==
    /\ toolRun.pc = "fs"
    /\ toolRun' = [toolRun EXCEPT !.pc = "done", !.result = ToolResult(FALSE, code)]
    /\ UNCHANGED <<clientVars, toolLoop, streamCall, serviceVars>>

ToolNext ==
    \/ \E p \in PathsUpTo(MaxSegs) : readFileTool(p)
    \/ \E p \in PathsUpTo(MaxSegs) : listFilesTool(p)
    \/ ToolFsResolve
    \/ \E code \in {"ENOENT", "other"} : ToolFsReject(code)

ToolSpec == ServerInit /\ [][ToolNext]_vars

----------------------------------------------------------------------------
(* Actions of the tool-call loop: route.ts lines 596-658 *)

\* getChatCompletion has answered with tool calls
ToolCallsDetected(toolCalls) ==
    /\ toolLoop.pc = "idle"
    /\ toolCalls # <<>>
    /\ toolLoop' = [IdleLoop EXCEPT !.pc = "call", !.toolCalls = toolCalls, !.i = 1]
    /\ UNCHANGED <<clientVars, toolRun, streamCall, serviceVars>>

\* One turn of the for loop up to the await: functionCaller throws for a
\* name that is no key of Functions, two functions answer themselves, the
\* others wait for the client
functionCaller ==
    /\ toolLoop.pc = "call"
    /\ toolLoop.i <= Len(toolLoop.toolCalls)
    /\ LET name == toolLoop.toolCalls[toolLoop.i]
       IN  toolLoop' =
               IF name \notin FunctionNames
               THEN [toolLoop EXCEPT
                        !.functionResults = Append(@, FunctionResult(name, FALSE, FALSE, "", TRUE)),
                        !.responses = Append(@, "none"),
                        !.i = @ + 1]
               ELSE IF name \in AnswersItself
               THEN [toolLoop EXCEPT
                        !.functionResults = Append(@, FunctionResult(name, TRUE, TRUE, OwnData, FALSE)),
                        !.responses = Append(@, "none"),
                        !.i = @ + 1]
               ELSE [toolLoop EXCEPT !.pc = "await"]
    /\ UNCHANGED <<clientVars, toolRun, streamCall, serviceVars>>

\* callClientsideFunction resolves and the turn of the loop ends
callClientsideFunction(response) ==
    /\ toolLoop.pc = "await"
    /\ LET name == toolLoop.toolCalls[toolLoop.i]
       IN  toolLoop' = [toolLoop EXCEPT
                           !.pc = "call",
                           !.functionResults = Append(@, FunctionOutcome(name, response).entry),
                           !.responses = Append(@, response),
                           !.i = @ + 1]
    /\ UNCHANGED <<clientVars, toolRun, streamCall, serviceVars>>

\* After the loop: the results go to the conversation and the follow-up
\* answer is returned
FollowUp ==
    /\ toolLoop.pc = "call"
    /\ toolLoop.i > Len(toolLoop.toolCalls)
    /\ toolLoop' = [toolLoop EXCEPT !.pc = "done"]
    /\ UNCHANGED <<clientVars, toolRun, streamCall, serviceVars>>

ToolCallLists == UNION {[1..k -> ToolNames] : k \in 1..MaxToolCalls}

LoopNext ==
    \/ \E toolCalls \in ToolCallLists : ToolCallsDetected(toolCalls)
    \/ functionCaller
    \/ \E response \in ClientResponses : callClientsideFunction(response)
    \/ FollowUp

LoopSpec == ServerInit /\ [][LoopNext]_vars

----------------------------------------------------------------------------
(* Actions of getChatCompletionStream: middleware.ts *)

\* The call.  DeepSeekService.getChatCompletionStream runs to its end at
\* once; GoogleGenAIService.getChatCompletionStream awaits
\* generateContentStream.
getChatCompletionStream(provider, chunks) ==
    /\ streamCall.pc = "idle"
    /\ streamCall' =
           IF provider = "deepseek"
           THEN [IdleStream EXCEPT !.pc = "done", !.provider = provider,
                                   !.log = <<"onChunk", "onError", "onEnd">>]
           ELSE [IdleStream EXCEPT !.pc = "open", !.provider = provider,
                                   !.chunks = chunks]
    /\ UNCHANGED <<clientVars, toolRun, toolLoop, serviceVars>>

\* generateContentStream resolves with the stream
GenerateResolves ==
    /\ streamCall.pc = "open"
    /\ streamCall' = [streamCall EXCEPT !.pc = "streaming"]
    /\ UNCHANGED <<clientVars, toolRun, toolLoop, serviceVars>>

\* generateContentStream rejects, or the stream throws between two chunks
StreamThrows(error) ==
    /\ streamCall.pc \in {"open", "streaming"}
    /\ streamCall' = [streamCall EXCEPT !.pc = "done",
                                        !.log = CatchStreamError(@, error)]
    /\ UNCHANGED <<clientVars, toolRun, toolLoop, serviceVars>>

\* One turn of the for await loop
NextChunk ==
    /\ streamCall.pc = "streaming"
    /\ streamCall.chunks # <<>>
    /\ LET chunk == Head(streamCall.chunks)
           log == CASE chunk = "text" -> Append(streamCall.log, "onChunk")
                    [] chunk = "functionCall" -> Append(streamCall.log, "toolCall")
                    [] OTHER -> streamCall.log
       IN  streamCall' = [streamCall EXCEPT !.chunks = Tail(@), !.log = log]
    /\ UNCHANGED <<clientVars, toolRun, toolLoop, serviceVars>>

\* The stream ends: onEnd()
StreamEnds ==
    /\ streamCall.pc = "streaming"
    /\ streamCall.chunks = <<>>
    /\ streamCall' = [streamCall EXCEPT !.pc = "done", !.log = Append(@, "onEnd")]
    /\ UNCHANGED <<clientVars, toolRun, toolLoop, serviceVars>>

ChunkLists == UNION {[1..k -> ChunkKinds] : k \in 0..MaxStreamChunks}

StreamNext ==
    \/ \E provider \in Providers : \E chunks \in ChunkLists :
           getChatCompletionStream(provider, chunks)
    \/ GenerateResolves
    \/ \E error \in StreamErrors : StreamThrows(error)
    \/ NextChunk
    \/ StreamEnds

StreamSpec == ServerInit /\ [][StreamNext]_vars

----------------------------------------------------------------------------
(* Actions of AIService.getChatCompletion: middleware.ts lines 766-792 *)

\* The call up to the await of the service of the current provider
getChatCompletion(provider, model) ==
    /\ chatCall.pc = "idle"
    /\ chatCall' = [IdleChat EXCEPT !.pc = "await", !.provider = provider,
                                    !.model = model]
    /\ UNCHANGED othersOfChat

\* genAI.models.generateContent resolves
GenerateContentResolves(response) ==
    /\ chatCall.pc = "await"
    /\ chatCall.provider = "google"
    /\ chatCall' = [chatCall EXCEPT !.pc = "done", !.backend = response,
                                    !.result = GoogleResult(response)]
    /\ UNCHANGED othersOfChat

\* genAI.models.generateContent rejects
GenerateContentRejects(error) ==
    /\ chatCall.pc = "await"
    /\ chatCall.provider = "google"
    /\ chatCall' = [chatCall EXCEPT !.pc = "done", !.backend = Rejected(error),
                                    !.result = GoogleCatch(error)]
    /\ UNCHANGED othersOfChat

\* The fetch of DeepSeekService.makeApiRequest resolves
FetchResolves(ok, choices) ==
    /\ chatCall.pc = "await"
    /\ chatCall.provider = "deepseek"
    /\ LET response == FetchResponse(ok, choices)
           result == DeepSeekResult(response)
       IN  chatCall' = [chatCall EXCEPT
                           !.pc = "done", !.backend = response,
                           !.result = IF result.kind = "thrown"
                                      THEN AIServiceCatch(result) ELSE result]
    /\ UNCHANGED othersOfChat

\* The fetch rejects: no network
FetchRejects ==
    /\ chatCall.pc = "await"
    /\ chatCall.provider = "deepseek"
    /\ chatCall' = [chatCall EXCEPT
                       !.pc = "done", !.backend = Rejected("fetch failed"),
                       !.result = AIServiceCatch(ChatResult("thrown", <<>>, "fetch failed"))]
    /\ UNCHANGED othersOfChat

ChatNext ==
    \/ \E provider \in Providers : \E model \in Models : getChatCompletion(provider, model)
    \/ \E response \in GoogleResponses : GenerateContentResolves(response)
    \/ \E error \in StreamErrors : GenerateContentRejects(error)
    \/ \E ok \in BOOLEAN : \E choices \in BOOLEAN : FetchResolves(ok, choices)
    \/ FetchRejects

ChatSpec == ServerInit /\ [][ChatNext]_vars

----------------------------------------------------------------------------
(* Actions of SocketService: middleware.ts lines 870-921 *)

\* callClientsideFunction up to the return of the promise: the socket is
\* created on the first call, the once-listener is registered, the event is
\* emitted and the timer is armed
CallClientside(userId) ==
    /\ Len(socketService.calls) < MaxCalls
    /\ LET i == Len(socketService.calls) + 1
           sent == socketServer.system["service"] = "connected"
       IN  /\ socketService' =
                  [socketService EXCEPT
                      !.socket = "created",
                      !.calls = Append(@, RpcCall(userId, socketServer.users[userId] # 0)),
                      !.listeners = @ \cup {i},
                      !.sendBuffer = IF sent THEN @ ELSE Append(@, i)]
           /\ socketServer' =
                  IF sent
                  THEN [socketServer EXCEPT
                           !.inbox = Append(@, [from |-> "service", call |-> i])]
                  ELSE socketServer
    /\ UNCHANGED othersOfSocket

\* A clientside-call event arrives on the socket of the service, the
\* response to the request of call j: the event carries nothing that names
\* the request, and every once-listener registered for it runs and is
\* removed
Receive(response, j) ==
    /\ socketService.listeners # {}
    /\ j \in DOMAIN socketService.calls
    /\ socketService' =
           [socketService EXCEPT
               !.calls = [i \in DOMAIN @ |->
                             IF i \in socketService.listeners
                             THEN resolve([@[i] EXCEPT !.events = Append(@, response),
                                                       !.replyTo = Append(@, j)],
                                          response)
                             ELSE @[i]],
               !.listeners = {}]
    /\ UNCHANGED <<socketServer, othersOfSocket>>

\* The callback of setTimeout of call i runs
Timeout(i) ==
    /\ i \in DOMAIN socketService.calls
    /\ socketService.calls[i].timer = "armed"
    /\ socketService' =
           [socketService EXCEPT
               !.calls[i] = resolve([@ EXCEPT !.timer = "fired",
                                              !.events = Append(@, TimeoutEnvelope),
                                              !.replyTo = Append(@, i),
                                              !.quiet = ~InTransit(i)],
                                    TimeoutEnvelope)]
    /\ UNCHANGED <<socketServer, othersOfSocket>>

RpcNext ==
    \/ \E userId \in UserIds : CallClientside(userId)
    \/ \E response \in Answers : \E j \in 1..MaxCalls : Receive(response, j)
    \/ \E i \in 1..MaxCalls : Timeout(i)

\* SocketService in front of a server that may send it any event at any time
RpcSpec == ServerInit /\ [][RpcNext]_vars

\* The timer of every call runs out
FairRpcSpec == RpcSpec /\ \A i \in 1..MaxCalls : WF_vars(Timeout(i))

----------------------------------------------------------------------------
(* Actions of the socket server: socket-server.ts lines 39-95 *)

\* The connection handler as it would be without the check of users.has:
\* the new socket takes the entry of the userId
UserConnects_Replaces(s, userId) ==
    /\ socketServer.sockets[s].st = "none"
    /\ socketServer' =
           IF userId = ""
           THEN [socketServer EXCEPT !.sockets[s] = [userId |-> userId, st |-> "refused"]]
           ELSE [socketServer EXCEPT !.sockets[s] = [userId |-> userId, st |-> "open"],
                                     !.users[userId] = s]
    /\ UNCHANGED <<socketService, othersOfSocket>>

\* The connection handler of the default namespace for socket s with the
\* handshake query userId (the empty string: none)
UserConnects(s, userId) ==
    /\ socketServer.sockets[s].st = "none"
    /\ socketServer' =
           IF userId = "" \/ socketServer.users[userId] # 0
           THEN [socketServer EXCEPT !.sockets[s] = [userId |-> userId, st |-> "refused"]]
           ELSE [socketServer EXCEPT !.sockets[s] = [userId |-> userId, st |-> "open"],
                                     !.users[userId] = s]
    /\ UNCHANGED <<socketService, othersOfSocket>>

\* The disconnect handler of a socket the default namespace has accepted
UserDisconnects(s) ==
    /\ socketServer.sockets[s].st = "open"
    /\ LET userId == socketServer.sockets[s].userId
       IN  /\ socketServer' = [socketServer EXCEPT !.sockets[s].st = "closed",
                                                    !.users[userId] = 0]
           /\ socketService' =
                  [socketService EXCEPT
                      !.calls = [i \in DOMAIN @ |->
                                    IF @[i].userId = userId /\ @[i].st = "pending"
                                    THEN [@[i] EXCEPT !.online = FALSE]
                                    ELSE @[i]]]
    /\ UNCHANGED othersOfSocket

\* The connection handler of the system namespace: a socket without userId
\* in its handshake is disconnected before any listener is registered and
\* what it has emitted is never handled; the events another socket has
\* emitted reach its clientside-call listener
SystemConnection(s) ==
    /\ socketServer.system[s] = "none"
    /\ s = "service" => socketService.socket = "created"
    /\ socketServer' =
           IF SystemQuery(s) = ""
           THEN [socketServer EXCEPT !.system[s] = "disconnected"]
           ELSE [socketServer EXCEPT !.system[s] = "connected"]
    /\ UNCHANGED <<socketService, othersOfSocket>>

\* A connected socket of the system namespace other than the service's
\* emits clientside-call
ConsoleEmits ==
    /\ socketServer.system["console"] = "connected"
    /\ Len(socketServer.inbox) + Len(socketServer.relayed) < MaxCalls
    /\ socketServer' = [socketServer EXCEPT
                           !.inbox = Append(@, [from |-> "console", call |-> 0])]
    /\ UNCHANGED <<socketService, othersOfSocket>>

\* Lines 83-94: the event goes to the socket that users holds for the
\* userId of the handshake of the emitting socket, if there is one
Relay ==
    /\ socketServer.inbox # <<>>
    /\ LET m == Head(socketServer.inbox)
           target == socketServer.users[SystemQuery(m.from)]
       IN  socketServer' =
               [socketServer EXCEPT
                   !.inbox = Tail(@),
                   !.relayed = IF target = 0 THEN @
                               ELSE Append(@, [to |-> target, from |-> m.from,
                                               call |-> m.call, answered |-> FALSE])]
    /\ UNCHANGED <<socketService, othersOfSocket>>

\* The execution context of the user answers event k.  The callBack of the
\* relayed payload is a function, which does not travel with the event, and
\* the server emits nothing to the socket the call came from: the answer
\* stays with the user.
UserAnswers(k) ==
    /\ k \in DOMAIN socketServer.relayed
    /\ ~socketServer.relayed[k].answered
    /\ socketServer.sockets[socketServer.relayed[k].to].st = "open"
    /\ socketServer' = [socketServer EXCEPT !.relayed[k].answered = TRUE]
    /\ UNCHANGED <<socketService, othersOfSocket>>

RelayNext ==
    \/ \E userId \in UserIds : CallClientside(userId)
    \/ \E i \in 1..MaxCalls : Timeout(i)
    \/ \E s \in 1..MaxSockets : \E userId \in UserIds \cup {""} : UserConnects(s, userId)
    \/ \E s \in 1..MaxSockets : UserDisconnects(s)
    \/ \E s \in SystemSockets : SystemConnection(s)
    \/ ConsoleEmits
    \/ Relay
    \/ \E k \in 1..MaxCalls : UserAnswers(k)

\* SocketService in front of the socket server of the repository
RelaySpec == ServerInit /\ [][RelayNext]_vars

UsersNext ==
    \/ \E s \in 1..MaxSockets : \E userId \in UserIds \cup {""} : UserConnects(s, userId)
    \/ \E s \in 1..MaxSockets : UserDisconnects(s)
    \/ \E s \in SystemSockets : SystemConnection(s)
    \/ ConsoleEmits
    \/ Relay
    \/ \E k \in 1..MaxCalls : UserAnswers(k)

\* The socket server on its own: browsers come and go on the default
\* namespace, a client of the system namespace emits events
UsersSpec == ServerInit /\ [][UsersNext]_vars

----------------------------------------------------------------------------
(* Actions of POST of the projects route: route.ts lines 351-658 *)

\* The request arrives: lines 353-355, up to the await of the session
Post(r, provider, model) ==
    /\ posts[r].pc = "none"
    /\ posts' = [posts EXCEPT ![r] = [NoPost EXCEPT !.pc = "session",
                                                     !.provider = provider,
                                                     !.model = model]]
    /\ UNCHANGED <<aiService, othersOfProvider>>

\* Lines 366-592, which run without an await: the provider is switched when
\* the body names a provider and a model, and getChatCompletion reads
\* currentProvider and currentModel before its first await
SwitchAndComplete(r) ==
    /\ posts[r].pc = "session"
    /\ LET service == IF posts[r].provider # "" /\ posts[r].model # ""
                      THEN switchProvider(posts[r].provider, posts[r].model)
                      ELSE aiService
       IN  /\ aiService' = service
           /\ posts' = [posts EXCEPT
                           ![r].pc = "completion",
                           ![r].completions =
                               Append(@, [provider |-> service.currentProvider,
                                          model |-> service.currentModel])]
    /\ UNCHANGED othersOfProvider

\* The first completion resolves; only the Google service answers with
\* tool calls, and then the loop of lines 603-634 starts
CompletionResolves(r, hasToolCalls) ==
    /\ posts[r].pc = "completion"
    /\ hasToolCalls => posts[r].completions[1].provider = "google"
    /\ posts' = [posts EXCEPT ![r].pc = IF hasToolCalls THEN "tools" ELSE "done"]
    /\ UNCHANGED <<aiService, othersOfProvider>>

\* The loop has ended: line 644 asks for the follow-up completion, and
\* getChatCompletion reads currentProvider and currentModel again
FollowUpCompletion(r) ==
    /\ posts[r].pc = "tools"
    /\ posts' = [posts EXCEPT
                    ![r].pc = "followUp",
                    ![r].completions =
                        Append(@, [provider |-> aiService.currentProvider,
                                   model |-> aiService.currentModel])]
    /\ UNCHANGED <<aiService, othersOfProvider>>

\* The follow-up completion resolves and the response is returned
FollowUpResolves(r) ==
    /\ posts[r].pc = "followUp"
    /\ posts' = [posts EXCEPT ![r].pc = "done"]
    /\ UNCHANGED <<aiService, othersOfProvider>>

ProviderNext ==
    \E r \in 1..MaxPosts :
        \/ \E provider \in Providers \cup {""} : \E model \in Models \cup {""} :
               Post(r, provider, model)
        \/ SwitchAndComplete(r)
        \/ \E hasToolCalls \in BOOLEAN : CompletionResolves(r, hasToolCalls)
        \/ FollowUpCompletion(r)
        \/ FollowUpResolves(r)

ProviderSpec == ServerInit /\ [][ProviderNext]_vars

----------------------------------------------------------------------------
(* Actions on the context cache: middleware.ts lines 381-387 and 555-569 *)

\* generateProjectStructure stores its prompt before anything else
generateProjectStructure(prompt) ==
    /\ Len(contextCache.prompts) < MaxPrompts
    /\ contextCache' =
           [contextCache EXCEPT
               !.entries = MapSet(@, CacheKey(prompt), prompt),
               !.prompts = Append(@, prompt)]
    /\ UNCHANGED othersOfCache

\* generateFileContent takes its project context from the cache
generateFileContent ==
    /\ contextCache' =
           [contextCache EXCEPT
               !.readAt = Len(contextCache.prompts),
               !.projectContext = ProjectContext(contextCache.entries)]
    /\ UNCHANGED othersOfCache

CacheNext ==
    \/ \E prompt \in Prompts : generateProjectStructure(prompt)
    \/ generateFileContent

CacheSpec == ServerInit /\ [][CacheNext]_vars

----------------------------------------------------------------------------
(* Actions of generateProject: src/unnamed/part_005 lines 60-179 *)

\* generateProject up to its first await: without a sandbox the error is
\* stored and the call throws; with one, isProjectGenerating is set and the
\* request to /api/projects/generate is sent
generateProject ==
    /\ Len(projectStore.calls) < MaxGenerations
    /\ projectStore' =
           IF webcontainerInstance = "null"
           THEN [projectStore EXCEPT !.error = "WebContainer not initialized",
                                     !.calls = Append(@, GenerateCall("thrown", 0))]
           ELSE [projectStore EXCEPT !.isProjectGenerating = TRUE,
                                     !.calls = Append(@, GenerateCall("fetch", 0))]
    /\ UNCHANGED othersOfStore

\* The fetch of call c settles: ok, not ok (the error body is read next) or
\* rejected
GenerateFetchSettles(c, outcome) ==
    /\ c \in DOMAIN projectStore.calls
    /\ projectStore.calls[c].pc = "fetch"
    /\ projectStore' =
           CASE outcome = "ok" -> [projectStore EXCEPT !.calls[c].pc = "json"]
             [] outcome = "notOk" -> [projectStore EXCEPT !.calls[c].pc = "errorJson"]
             [] OTHER -> GenerateCatch(projectStore, c, "fetch failed")
    /\ UNCHANGED othersOfStore

\* response.json() of a response that was not ok settles: either way an
\* Error is thrown
GenerateErrorBodySettles(c) ==
    /\ c \in DOMAIN projectStore.calls
    /\ projectStore.calls[c].pc = "errorJson"
    /\ projectStore' = GenerateCatch(projectStore, c, "Failed to generate project")
    /\ UNCHANGED othersOfStore

\* response.json() of an ok response settles: with a files array the
\* progress is reset and writeFiles starts on a structure that takes
\* `writes` awaits; without one, or when it rejects, an Error is thrown
GenerateBodySettles(c, hasFiles, writes) ==
    /\ c \in DOMAIN projectStore.calls
    /\ projectStore.calls[c].pc = "json"
    /\ projectStore' =
           IF hasFiles
           THEN [projectStore EXCEPT !.error = "null",
                                     !.calls[c] = GenerateCall("writing", writes)]
           ELSE GenerateCatch(projectStore, c, "Invalid response from server")
    /\ UNCHANGED othersOfStore

\* One await of writeFiles (mkdir, generateFileContent, writeFile) settles
GenerateWriteSettles(c, resolved) ==
    /\ c \in DOMAIN projectStore.calls
    /\ projectStore.calls[c].pc = "writing"
    /\ projectStore' =
           IF ~resolved THEN GenerateCatch(projectStore, c, "write failed")
           ELSE IF projectStore.calls[c].writes > 1
           THEN [projectStore EXCEPT !.calls[c].writes = @ - 1]
           ELSE GenerateFinally(projectStore, c)
    /\ UNCHANGED othersOfStore

GenerateNext ==
    \/ Boot
    \/ generateProject
    \/ \E c \in 1..MaxGenerations :
           \E outcome \in {"ok", "notOk", "rejected"} : GenerateFetchSettles(c, outcome)
    \/ \E c \in 1..MaxGenerations : GenerateErrorBodySettles(c)
    \/ \E c \in 1..MaxGenerations :
           \E hasFiles \in BOOLEAN : \E writes \in 1..MaxWrites :
               GenerateBodySettles(c, hasFiles, writes)
    \/ \E c \in 1..MaxGenerations :
           \E resolved \in BOOLEAN : GenerateWriteSettles(c, resolved)

\* The store with any number of generateProject calls under way
GenerateSpec == ServerInit /\ [][GenerateNext]_vars

----------------------------------------------------------------------------
(* Actions of POST of the project files route: part_000 lines 37-92 *)

\* POST up to the await of prisma.file.findFirst: the session and the
\* project are found and the body is read; a body without path is answered
\* with 400
FilePost(r, path) ==
    /\ projectFiles.requests[r].pc = "none"
    /\ projectFiles' =
           [projectFiles EXCEPT
               !.requests[r] =
                   IF path = ""
                   THEN [pc |-> "done", path |-> path, status |-> 400, existed |-> FALSE]
                   ELSE [pc |-> "findFirst", path |-> path, status |-> 0,
                         existed |-> FindFirst(projectFiles.files, path)]]
    /\ UNCHANGED othersOfFiles

\* findFirst resolves: with a row of the path the answer is 400, without
\* one prisma.file.create is called
FileFindFirstResolves(r) ==
    /\ projectFiles.requests[r].pc = "findFirst"
    /\ projectFiles' =
           IF FindFirst(projectFiles.files, projectFiles.requests[r].path)
           THEN [projectFiles EXCEPT !.requests[r].pc = "done",
                                     !.requests[r].status = 400]
           ELSE [projectFiles EXCEPT !.requests[r].pc = "create"]
    /\ UNCHANGED othersOfFiles

\* create settles: the row is stored and returned, or a table that keeps
\* paths unique rejects it and the catch answers 500
FileCreateSettles(r) ==
    /\ projectFiles.requests[r].pc = "create"
    /\ projectFiles' =
           IF projectFiles.uniquePath
                  /\ FindFirst(projectFiles.files, projectFiles.requests[r].path)
           THEN [projectFiles EXCEPT !.requests[r].pc = "done",
                                     !.requests[r].status = 500]
           ELSE [projectFiles EXCEPT
                    !.files = Append(@, [path |-> projectFiles.requests[r].path,
                                         by |-> r]),
                    !.requests[r].pc = "done",
                    !.requests[r].status = 200]
    /\ UNCHANGED othersOfFiles

FilesNext ==
    \/ \E r \in 1..MaxFilePosts : \E path \in FilePaths \cup {""} : FilePost(r, path)
    \/ \E r \in 1..MaxFilePosts : FileFindFirstResolves(r)
    \/ \E r \in 1..MaxFilePosts : FileCreateSettles(r)

\* The route in front of a file table of either kind
FilesInit ==
    /\ ClientInit({<<>>})
    /\ ServicesIdle
    /\ projectFiles \in {ProjectFiles(uniquePath) : uniquePath \in BOOLEAN}

FilesSpec == FilesInit /\ [][FilesNext]_vars

----------------------------------------------------------------------------
(* Fairness *)

\* What the sandbox and the runtime guarantee to a waiting handler: every
\* filesystem call and every spawn settles, and the exit of a process that
\* exits is delivered.  Nothing makes a long-running process exit:
\* ProcessExit is not enabled for it.
Fairness ==
    \A id \in Ids :
        /\ WF_vars(FsResolve(id) \/ FsReject(id))
        /\ WF_vars(SpawnResolve(id) \/ SpawnReject(id))
        /\ WF_vars(ProcessExit(id))

FairSpec == Init /\ [][Next]_vars /\ Fairness

\* The stream of request r is cancelled while the read loop waits for its
\* next chunk: reader.read() rejects, the catch block appends the error
\* message and the finally block ends the loading state.  What the backend
\* had still to send stays unread.
StreamAborted(r) ==
    /\ requests[r].st = "streaming"
    /\ requests' = [requests EXCEPT ![r].st = "aborted"]
    /\ messages' = Append(messages, ErrorMsg)
    /\ isChatLoading' = FALSE
    /\ UNCHANGED <<webcontainerInstance, localActions, snaps, handlers, sandboxCalls,
                   tape, skipLog, lastParse, ledgerLog, serverVars>>

CancelNext ==
    \/ Next
    \/ \E r \in DOMAIN requests : StreamAborted(r)

\* The chat panel with streams that may be cancelled at any time
CancelSpec == Init /\ [][CancelNext]_vars

FairCancelSpec == CancelSpec /\ Fairness

\* The chat panel in front of a backend that answers with one action block
RoundTripInit == ClientInit(PayloadTapes) /\ ServerIdle

RoundTripSpec == RoundTripInit /\ [][Next]_vars

----------------------------------------------------------------------------
(* Observations used by the properties *)

Count(seq, x) == Cardinality({i \in DOMAIN seq : seq[i] = x})

\* Number of sandbox calls made for an action id
NCalls(calls, id) == Cardinality({i \in DOMAIN calls : calls[i].id = id})

\* The re-entry requests an action has triggered
ReentriesBy(id) ==
    {r \in DOMAIN requests : requests[r].kind = "action" /\ requests[r].by = id}

\* history: messages.map(...) as read by the fetch call of request r
History(r) == snaps[requests[r].cl]

Streaming == {r \in DOMAIN requests : requests[r].st = "streaming"}

RECURSIVE IsSubsequence(_, _)
IsSubsequence(u, s) ==
    IF u = <<>> THEN TRUE
    ELSE IF s = <<>> THEN FALSE
    ELSE IF Head(u) = Head(s) THEN IsSubsequence(Tail(u), Tail(s))
    ELSE IsSubsequence(u, Tail(s))

\* Position of the first open marker that no close marker follows; 0 if none
DanglingOpen(s) ==
    LET closes == {i \in DOMAIN s : s[i].t = "close"}
        last == IF closes = {} THEN 0 ELSE CHOOSE i \in closes : \A j \in closes : j <= i
    IN  IndexOfFrom(s, "open", last + 1)

----------------------------------------------------------------------------
(* C1 *)

\* C1: an action id whose ledger status is success or error gets no further
\* sandbox call, whatever buffer is parsed again, and no id ever causes more
\* than one sandbox call.
C1_AtMostOnce ==
    /\ [](\A id \in Ids : NCalls(sandboxCalls, id) <= 1)
    /\ [][\A id \in Ids :
             localActions[id].status \in Terminal
                 => NCalls(sandboxCalls', id) = NCalls(sandboxCalls, id)]_vars

\* A block was seen again after its action had ended, and one call was made
C1_Witness ==
    \E id \in Ids :
        /\ \E st \in Terminal : <<id, st>> \in skipLog
        /\ NCalls(sandboxCalls, id) = 1

(* C2 *)

\* C2: a re-entry request is never issued while a completion response of the
\* conversation is still being streamed.
C2_ReentrySerialized ==
    [][\A r \in DOMAIN requests' :
           (r \notin DOMAIN requests /\ requests'[r].kind = "action") => Streaming = {}]_vars

(* C3 *)

\* C3: when the parsed buffer has an open marker that no close marker
\* follows, the text returned for display is taken from the part of the
\* buffer before that marker only.
C3_WithheldFromOpenMarker ==
    LET p == DanglingOpen(lastParse.input)
    IN  p # 0 => IsSubsequence(lastParse.output, SubSeq(lastParse.input, 1, p - 1))

(* C4 *)

C5_HistoryHasResult ==
    \A r \in DOMAIN requests :
        requests[r].kind = "action"
            => \E i \in DOMAIN History(r) :
                   History(r)[i].hidden /\ History(r)[i].actionId = requests[r].by

(* C6 *)

\* C6: every action marked in-progress eventually reaches success or error.
C6_EventuallyTerminal ==
    \A id \in Ids :
        (localActions[id].status = "in-progress") ~> (localActions[id].status \in Terminal)

(* C7 *)

\* C7: two actions dispatched from the same buffer are never in progress at
\* the same time.
C7_OneAtATime ==
    \A a, b \in Ids :
        (a # b /\ localActions[a].status = "in-progress"
               /\ localActions[b].status = "in-progress")
            => handlers[a].req # handlers[b].req

(* C8 *)

\* C8: every run_command action that has reached success or error has
\* triggered a re-entry request.
C8_CommandAlwaysReenters ==
    \A id \in Ids :
        (localActions[id].status \in Terminal /\ handlers[id].a.action = "run_command")
            => ReentriesBy(id) # {}

(* C9 *)

\* C9: a parse starts no handler for an id that is recorded as in-progress,
\* and starts at most one handler for any id however often the id stands in
\* the buffer.
C9_NoSecondHandler ==
    [][lastParse' # lastParse =>
          \A id \in Ids :
              Count(lastParse'.started, id) <=
                  IF localActions[id].status = "in-progress" THEN 0 ELSE 1]_vars

\* A block was seen again while its handler was waiting for the sandbox
C9_Witness ==
    \E id \in Ids :
        /\ <<id, "in-progress">> \in skipLog
        /\ NCalls(sandboxCalls, id) = 1

(* C10 *)

\* The action kinds of the protocol
Kinds ==
    {"create_file", "write_file", "read_file", "list_files", "run_command",
     "create_directory", "read_file_and_send_to_ai_chat_session"}

ProseChars == {"a", "b", "ws"}

\* Length of the well-formed action block that s begins with; 0 if s does
\* not begin with one
BlockLen(s) ==
    IF Len(s) >= 3 /\ s[1].t = "open" /\ s[2].t = "obj" /\ s[3].t = "close"
    THEN 3
    ELSE IF Len(s) >= 4 /\ s[1].t = "open" /\ s[2].t = "objc"
    THEN LET e == IndexOfFrom(s, "endc", 3)
         IN  IF e # 0 /\ e < Len(s) /\ s[e + 1].t = "close"
                /\ \A i \in 3..(e - 1) : s[i].t \in StringChars
             THEN e + 1 ELSE 0
    ELSE 0

\* s is prose interleaved with well-formed action blocks of the protocol's kinds
RECURSIVE IsBlocksAndProse(_)
IsBlocksAndProse(s) ==
    IF s = <<>> THEN TRUE
    ELSE IF Head(s).t \in ProseChars THEN IsBlocksAndProse(Tail(s))
    ELSE /\ BlockLen(s) # 0
         /\ s[2].id \in Ids
         /\ s[2].action \in Kinds
         /\ IsBlocksAndProse(SubSeq(s, BlockLen(s) + 1, Len(s)))

\* The ids of the blocks of such a text, in source order
RECURSIVE BlockIds(_)
BlockIds(s) ==
    IF s = <<>> THEN <<>>
    ELSE IF Head(s).t \in ProseChars THEN BlockIds(Tail(s))
    ELSE <<s[2].id>> \o BlockIds(SubSeq(s, BlockLen(s) + 1, Len(s)))

\* The prose of such a text
RECURSIVE ProseOf(_)
ProseOf(s) ==
    IF s = <<>> THEN <<>>
    ELSE IF Head(s).t \in ProseChars THEN <<Head(s)>> \o ProseOf(Tail(s))
    ELSE ProseOf(SubSeq(s, BlockLen(s) + 1, Len(s)))

\* C10: parsing a buffer of N well-formed blocks with distinct ids that the
\* ledger does not hold yet, interleaved with prose, starts one handler per
\* block in source order and returns exactly the prose.
C10_BlocksInOrder ==
    LET s == lastParse.input
        ids == BlockIds(s)
    IN  (/\ IsBlocksAndProse(s)
         /\ \A i, j \in DOMAIN ids : i # j => ids[i] # ids[j]
         /\ \A i \in DOMAIN ids : lastParse.before[ids[i]] = "absent")
            => /\ lastParse.started = ids
               /\ lastParse.output = ProseOf(s)

(* C11 *)

\* One step of the lifecycle of a ledger entry
LifecycleStep(from, to) ==
    \/ from = "absent" /\ to \in {"pending", "in-progress"}
    \/ from = "pending" /\ to = "in-progress"
    \/ from = "in-progress" /\ to \in Terminal

\* The statuses an id has had, the absent one at the start included
StatusPath(id) == <<"absent">> \o ledgerLog[id]

\* C11: the statuses written for an action id follow absent -> pending ->
\* in-progress -> success|error: success or error is only written over
\* in-progress, nothing is written over success or error, and the ledger
\* holds the status written last.
C11_Lifecycle ==
    \A id \in Ids :
        /\ \A k \in 1..(Len(StatusPath(id)) - 1) :
               LifecycleStep(StatusPath(id)[k], StatusPath(id)[k + 1])
        /\ localActions[id].status = StatusPath(id)[Len(StatusPath(id))]

\* An action ran to success, and its block was parsed again afterwards
C11_Witness ==
    \E id \in Ids :
        /\ ledgerLog[id] = <<"in-progress", "success">>
        /\ <<id, "success">> \in skipLog

(* C12 *)

FileKinds ==
    {"create_file", "write_file", "read_file", "read_file_and_send_to_ai_chat_session"}

\* The action lacks a field its kind needs
MissingField(a) ==
    \/ a.action \in FileKinds /\ a.file_path = ""
    \/ a.action = "write_file" /\ ~a.content.def
    \/ a.action = "run_command" /\ a.command = ""

\* The handler of id found no sandbox or an action it cannot run
ValidationFailed(id) == handlers[id].wc = "null" \/ MissingField(handlers[id].a)

CallsOf(id) == {i \in DOMAIN sandboxCalls : sandboxCalls[i].id = id}

\* C12: a sandbox call is made only for an action recorded as in-progress;
\* an action is success exactly when its sandbox call resolved and error
\* exactly when its validation failed or its sandbox call was rejected; a
\* write_file with path and content whose call resolved made one writeFile
\* call with that path and content and is success.
C12_Envelope ==
    \A id \in Ids :
        LET h == handlers[id]
            ended == h.pc = "done"
        IN  /\ \A i \in CallsOf(id) : sandboxCalls[i].at = "in-progress"
            /\ localActions[id].status = "success" <=> (ended /\ h.res = "resolved")
            /\ localActions[id].status = "error"
                   <=> (ended /\ (ValidationFailed(id) \/ h.res = "rejected"))
            /\ (h.a.action = "write_file" /\ ~ValidationFailed(id) /\ h.res = "resolved")
                   => /\ Cardinality(CallsOf(id)) = 1
                      /\ \A i \in CallsOf(id) :
                             /\ sandboxCalls[i].op = "writeFile"
                             /\ sandboxCalls[i].path = h.a.file_path
                             /\ sandboxCalls[i].content = h.a.content
                      /\ localActions[id].status = "success"

\* A write_file ended in success after its call resolved, and another
\* action ended in error after its call was rejected
C12_Witness ==
    \E a, b \in Ids :
        /\ handlers[a].a.action = "write_file" /\ handlers[a].res = "resolved"
        /\ localActions[a].status = "success"
        /\ handlers[b].res = "rejected" /\ localActions[b].status = "error"

(* C13 *)

\* The actions carried by the complete blocks of a buffer whose payload is
\* valid JSON, in source order
RECURSIVE ParsedBlocks(_, _)
ParsedBlocks(s, ms) ==
    IF ms = <<>> THEN <<>>
    ELSE LET json == JSONParse(MatchText(s, Head(ms)))
         IN  (IF json.ok THEN <<json.value>> ELSE <<>>) \o ParsedBlocks(s, Tail(ms))

\* C13: after a buffer has been parsed, every well-formed block in it whose
\* kind is one of the protocol's kinds has a ledger entry.
C13_EveryKindRouted ==
    LET s == lastParse.input
        blocks == ParsedBlocks(s, MatchedActions(s))
    IN  ~EarlyReturn(s)
            => \A i \in DOMAIN blocks :
                   (blocks[i].action \in Kinds /\ blocks[i].id \in Ids)
                       => localActions[blocks[i].id].status # "absent"

(* C14 *)

\* Paths that lead out of the sandbox root through ".." segments
LeavesRoot(path) == path \in {"../../etc/passwd"}

\* C14: no sandbox filesystem call is made with a path that leaves the
\* sandbox root, and a file action with such a path that has ended is error.
C14_NoEscape ==
    /\ \A i \in DOMAIN sandboxCalls : ~LeavesRoot(sandboxCalls[i].path)
    /\ \A id \in Ids :
           (handlers[id].a.action \in FileKinds /\ LeavesRoot(handlers[id].a.file_path)
                /\ handlers[id].pc = "done")
               => localActions[id].status = "error"

(* C16 *)

\* C16: an action that lacks a field its kind needs is error as soon as its
\* handler has run, no sandbox call is made for it, and in-progress is
\* written for it once only.
C16_MissingFieldFails ==
    \A id \in Ids :
        (handlers[id].pc # "idle" /\ MissingField(handlers[id].a))
            => /\ localActions[id].status = "error"
               /\ CallsOf(id) = {}
               /\ ledgerLog[id] = <<"in-progress", "error">>

\* With the sandbox booted, an action without its field ended in error,
\* and its block was parsed again afterwards
C16_Witness ==
    \E id \in Ids :
        /\ handlers[id].wc = "ready"
        /\ MissingField(handlers[id].a)
        /\ localActions[id].status = "error"
        /\ <<id, "error">> \in skipLog

(* C15 *)

\* The resolved path is the workspace root or lies below it
InsideRoot(absolutePath) ==
    LET root == SplitPath(WORKSPACE_ROOT, <<>>)
        segs == SplitPath(absolutePath, <<>>)
    IN  Len(root) <= Len(segs) /\ SubSeq(segs, 1, Len(root)) = root

\* C15: readFileTool and listFilesTool call the filesystem only when the
\* resolved path is the workspace root or a descendant of it; for a path
\* resolving elsewhere they return success false without a filesystem call.
C15_OnlyInsideRoot ==
    (toolRun.pc # "idle" /\ ~InsideRoot(toolRun.absolutePath))
        => /\ toolRun.fsCalls = <<>>
           /\ toolRun.pc = "done"
           /\ ~toolRun.result.success

(* C17 *)

\* The complete blocks of a buffer whose payload is not valid JSON
RECURSIVE Malformed(_, _)
Malformed(s, ms) ==
    IF ms = <<>> THEN <<>>
    ELSE (IF JSONParse(MatchText(s, Head(ms))).ok THEN <<>> ELSE <<Head(ms)>>)
             \o Malformed(s, Tail(ms))

\* The buffer with its malformed blocks cut out
WithoutMalformed(s) == DropMatches(s, Malformed(s, MatchedActions(s)), 1)

\* C17: a parse of a buffer that holds complete blocks with a payload that
\* is not valid JSON starts the handlers that the same buffer without those
\* blocks would start, in the same order, and the text it returns holds
\* neither those blocks nor the others.
C17_MalformedSkipped ==
    [][(lastParse' # lastParse /\ Malformed(lastParse'.input, MatchedActions(lastParse'.input)) # <<>>)
          => LET r == lastParse'.req
                 good == WithoutMalformed(lastParse'.input)
             IN  /\ lastParse'.started =
                        parseActionsFromChunk(Cur, good, requests[r].cl, r).st.started
                 /\ lastParse'.output = ReplaceAllBlocks(good)]_vars

\* A parse started a handler for a block before a malformed block and for
\* a block after it
C17_Witness ==
    LET s == lastParse.input
        ms == MatchedActions(s)
        ok(k) == JSONParse(MatchText(s, ms[k])).ok
        id(k) == JSONParse(MatchText(s, ms[k])).value.id
    IN  \E i, j, k \in DOMAIN ms :
            /\ i < j /\ j < k
            /\ ok(i) /\ ~ok(j) /\ ok(k)
            /\ \E x, y \in DOMAIN lastParse.started :
                   x < y /\ lastParse.started[x] = id(i) /\ lastParse.started[y] = id(k)

(* C18 *)

\* The tool call at position i failed: its function could not be called, or
\* the client answered with a failure, with nothing, or not in time
CallFailed(i) ==
    \/ toolLoop.toolCalls[i] \notin FunctionNames
    \/ toolLoop.responses[i] \in {"failed", "timeout", "undefined"}

\* An element of functionResults that tells of a failure
RecordedAsError(entry) == entry.hasError \/ (entry.hasResult /\ ~entry.status)

\* C18: when the tool-call loop has ended, every tool call of the turn has
\* its own element in functionResults, and the elements recorded as error
\* are exactly those of the calls that failed.
C18_FailureIsolated ==
    toolLoop.pc = "done"
        => /\ Len(toolLoop.functionResults) = Len(toolLoop.toolCalls)
           /\ \A i \in DOMAIN toolLoop.toolCalls :
                  /\ toolLoop.functionResults[i].name = toolLoop.toolCalls[i]
                  /\ CallFailed(i) <=> RecordedAsError(toolLoop.functionResults[i])

(* C19 *)

RECURSIVE Flatten(_)
Flatten(chunks) == IF chunks = <<>> THEN <<>> ELSE Head(chunks) \o Flatten(Tail(chunks))

\* The whole answer to request r: what has been read and what is still to come
Buffer(r) == requests[r].chunkSum \o Flatten(requests[r].chunks)

\* The actions of the blocks of a text of prose and well-formed blocks
RECURSIVE BlockActions(_)
BlockActions(s) ==
    IF s = <<>> THEN <<>>
    ELSE IF Head(s).t \in ProseChars THEN BlockActions(Tail(s))
    ELSE <<[id |-> s[2].id, action |-> s[2].action, immediate |-> s[2].immediate]>>
             \o BlockActions(SubSeq(s, BlockLen(s) + 1, Len(s)))

\* A buffer of at least two actions with distinct ids, each of a kind the
\* dispatcher knows, none a run_command and exactly one immediate
OneImmediate(s) ==
    /\ IsBlocksAndProse(s)
    /\ LET as == BlockActions(s)
       IN  /\ Len(as) >= 2
           /\ \A i, j \in DOMAIN as : i # j => as[i].id # as[j].id
           /\ \A i \in DOMAIN as : as[i].action \in FileKinds
           /\ Cardinality({i \in DOMAIN as : as[i].immediate}) = 1

\* C19: for the answer to a user message that is such a buffer, no re-entry
\* request has been issued by its actions while one of them has still to
\* reach success or error, and exactly one has been issued once all of them
\* have.
C19_OneReentryAfterAll ==
    \A r \in DOMAIN requests :
        (requests[r].kind = "user" /\ requests[r].st \in {"streaming", "done"}
             /\ OneImmediate(Buffer(r)))
            => LET ids == {BlockIds(Buffer(r))[i] : i \in DOMAIN BlockIds(Buffer(r))}
                   n == Cardinality(UNION {ReentriesBy(id) : id \in ids})
               IN  IF \A id \in ids : localActions[id].status \in Terminal
                   THEN n = 1 ELSE n = 0

(* C20 *)

\* The positions of the log at which onEnd or onError was invoked
Terminals(log) == {i \in DOMAIN log : log[i] \in {"onEnd", "onError"}}

\* C20: during a call of getChatCompletionStream at most one of onEnd and
\* onError has been invoked, once, with no onChunk after it, and when the
\* call has returned exactly one has.
C20_OneTerminalCallback ==
    LET log == streamCall.log
    IN  /\ Cardinality(Terminals(log)) <= 1
        /\ \A i \in Terminals(log) : \A j \in DOMAIN log : j > i => log[j] # "onChunk"
        /\ streamCall.pc = "done" => Cardinality(Terminals(log)) = 1

----------------------------------------------------------------------------
(* C21 *)

\* The backend failed: the request was rejected, the answer was no success
\* or it carried no candidate, no part or no choice
BackendFailed(backend) ==
    \/ backend.outcome = "rejected"
    \/ /\ backend.outcome = "resolved"
       /\ IF chatCall.provider = "deepseek"
          THEN ~backend.ok \/ ~backend.choices
          ELSE ~backend.candidate \/ backend.parts = <<>>

\* C21: a call of AIService.getChatCompletion that has ended has returned an
\* envelope to its caller and has not thrown, whichever the provider; after
\* a failure of the backend the envelope carries an error.
C21_NeverThrows ==
    chatCall.pc = "done" =>
        /\ chatCall.result.kind # "thrown"
        /\ BackendFailed(chatCall.backend) => chatCall.result.kind = "error"

----------------------------------------------------------------------------
(* C22 *)

\* The positions of the parts that are function calls
FunctionCallsOf(parts) == {i \in 1..Len(parts) : parts[i].kind = "functionCall"}

\* The least element of a non-empty set of numbers
Least(S) == CHOOSE i \in S : \A j \in S : i <= j

\* C22: when the parts of the answer of the backend hold a function call,
\* getChatCompletion returns toolCalls with one entry, the first function
\* call of the parts, wherever it stands among them.
C22_FirstFunctionCall ==
    LET parts == chatCall.backend.parts
    IN  (chatCall.pc = "done" /\ FunctionCallsOf(parts) # {}) =>
            /\ chatCall.result.kind = "toolCalls"
            /\ chatCall.result.toolCalls = <<parts[Least(FunctionCallsOf(parts))].name>>

----------------------------------------------------------------------------
(* C23 *)

\* Call i exists
Called(i) == i \in DOMAIN socketService.calls

\* C23: every call of callClientsideFunction is resolved in the end; it is
\* resolved with what came first, the response its listener was given or
\* the timeout envelope of its timer; once resolved its value never changes,
\* whether a response or the timer comes afterwards.
C23_ResolvesOnce ==
    /\ [](\A i \in DOMAIN socketService.calls :
             LET call == socketService.calls[i]
             IN  /\ call.st = "resolved" <=> call.events # <<>>
                 /\ call.st = "resolved" => call.value = call.events[1])
    /\ [][\A i \in DOMAIN socketService.calls :
             socketService.calls[i].st = "resolved"
                 => /\ socketService.calls'[i].st = "resolved"
                    /\ socketService.calls'[i].value = socketService.calls[i].value]_vars
    /\ \A i \in 1..MaxCalls :
           Called(i) ~> (Called(i) /\ socketService.calls[i].st = "resolved")

\* One call was resolved with a response and its timer fired afterwards;
\* another was resolved by its timer and a response came afterwards
C23_Witness ==
    \E i, j \in DOMAIN socketService.calls :
        /\ socketService.calls[i].events = <<"ok", TimeoutEnvelope>>
        /\ socketService.calls[i].value = "ok"
        /\ socketService.calls[j].events = <<TimeoutEnvelope, "failed">>
        /\ socketService.calls[j].value = TimeoutEnvelope

----------------------------------------------------------------------------
(* C24 *)

\* C24: a call for a user who has been connected since the call was made,
\* and whose request is no longer on its way when the timer fires, is
\* resolved with the answer of the user's execution context and not with
\* the timeout envelope.
C24_AnswerNotTimeout ==
    \A i \in DOMAIN socketService.calls :
        LET call == socketService.calls[i]
        IN  (call.st = "resolved" /\ call.online /\ call.quiet)
                => call.value # TimeoutEnvelope

----------------------------------------------------------------------------
(* C25 *)

\* The tool kinds that are run in the execution context of the user
RemoteKinds ==
    {"create_file", "write_file", "read_file", "list_files", "run_command",
     "create_directory"}

\* The element of functionResults that tells what the call resolved with
OutcomeOf(name, response) ==
    FunctionResult(name, TRUE, response = "ok", ClientData(response), FALSE)

\* C25: when the tool-call loop has ended, every tool call of a kind run in
\* the user's execution context has made one call of callClientsideFunction,
\* and its element of functionResults holds the status and the data that
\* call resolved with.
C25_OneRpcRecorded ==
    toolLoop.pc = "done" =>
        \A i \in DOMAIN toolLoop.toolCalls :
            toolLoop.toolCalls[i] \in RemoteKinds =>
                /\ toolLoop.responses[i] # "none"
                /\ toolLoop.responses[i] # "undefined" =>
                       toolLoop.functionResults[i]
                           = OutcomeOf(toolLoop.toolCalls[i], toolLoop.responses[i])

----------------------------------------------------------------------------
(* C26 *)

\* C26: when the tool-call loop has ended, the element of functionResults
\* of every tool call whose callClientsideFunction ran into its timeout is
\* a result with status false and the timeout message as data.
C26_TimeoutRecorded ==
    toolLoop.pc = "done" =>
        \A i \in DOMAIN toolLoop.toolCalls :
            toolLoop.responses[i] = "timeout" =>
                /\ toolLoop.functionResults[i].hasResult
                /\ ~toolLoop.functionResults[i].status
                /\ toolLoop.functionResults[i].data = ClientData("timeout")

----------------------------------------------------------------------------
(* C27 *)

\* The body of request r names a provider and a model
Named(r) == posts[r].provider # "" /\ posts[r].model # ""

\* C27: every completion asked for by a request that names a provider and a
\* model is performed with that provider and that model, whatever other
\* requests do in between.
C27_OwnProvider ==
    \A r \in 1..MaxPosts :
        Named(r) =>
            \A k \in DOMAIN posts[r].completions :
                posts[r].completions[k]
                    = [provider |-> posts[r].provider, model |-> posts[r].model]

----------------------------------------------------------------------------
(* C28 *)

\* C28: when generateProjectStructure has been called with two prompts
\* whose first 50 characters differ, and generateFileContent has run after
\* the second, the project context it used is the second prompt.
C28_LatestPrompt ==
    LET prompts == contextCache.prompts
    IN  (/\ Len(prompts) = 2
         /\ CacheKey(prompts[1]) # CacheKey(prompts[2])
         /\ contextCache.readAt = 2)
            => contextCache.projectContext = prompts[2]

----------------------------------------------------------------------------
(* C29 *)

\* C29: when the buffer parsed is the JSON text of an action object between
\* the two markers, and the id of the object is not in the ledger, the
\* parse starts the handler of the object's kind, once, with an action of
\* the same id, kind, path, command and content, whatever the content is.
C29_RoundTrip ==
    \A a \in Payloads :
        (lastParse.input = Block(a) /\ lastParse.before[a.id] = "absent")
            => /\ lastParse.started = <<a.id>>
               /\ handlers[a.id].a = a

----------------------------------------------------------------------------
(* C30 *)

\* The stream of request r has been cancelled
Aborted(r) == r \in DOMAIN requests /\ requests[r].st = "aborted"

\* The handler of id was started by a parse of the stream of request r
StartedBy(id, r) == handlers[id].pc # "idle" /\ handlers[id].req = r

\* The action id is in progress and the stream that started it is cancelled
RunningAfterCancel(id) ==
    /\ localActions[id].status = "in-progress"
    /\ \E r \in DOMAIN requests : Aborted(r) /\ StartedBy(id, r)

\* C30: the step that cancels a stream changes no ledger entry, no handler
\* and no sandbox call; after it no chunk of that stream is read or parsed;
\* and every action that a parse of the cancelled stream had started still
\* reaches success or error.
C30_CancelLeavesActions ==
    /\ [][\A r \in DOMAIN requests :
             (requests[r].st = "streaming" /\ requests'[r].st = "aborted")
                 => /\ localActions' = localActions
                    /\ handlers' = handlers
                    /\ sandboxCalls' = sandboxCalls]_vars
    /\ [][\A r \in DOMAIN requests :
             Aborted(r) => /\ requests'[r] = requests[r]
                           /\ lastParse'.req = r => lastParse' = lastParse]_vars
    /\ \A id \in Ids :
           RunningAfterCancel(id) ~> (localActions[id].status \in Terminal)

----------------------------------------------------------------------------
(* C31 *)

\* Call i is outstanding: made and not resolved
Outstanding(i) == Called(i) /\ socketService.calls[i].st = "pending"

\* C31: when two calls of callClientsideFunction are outstanding at the same
\* time on one SocketService, a step that resolves one of them resolves it
\* with its own timeout or with the response to its own request, never with
\* the response to the request of the other call.
C31_OwnResponse ==
    [][\A i, j \in DOMAIN socketService.calls :
          (i # j /\ Outstanding(i) /\ Outstanding(j)
               /\ socketService.calls'[i].st = "resolved")
              => LET n == Len(socketService.calls'[i].replyTo)
                 IN  socketService.calls'[i].replyTo[n] = i]_vars

----------------------------------------------------------------------------
(* C32 *)

\* Request r was started by handleSendMessage and its stream has not ended
InFlight(r) ==
    /\ requests[r].kind = "user"
    /\ requests[r].st \in {"sent", "streaming"}

\* C32: from the submit of handleSendMessage until the stream of its
\* response has ended, isChatLoading is true, so that the guard of a second
\* handleSendMessage returns before it starts a new completion request.
C32_LoadingWhileStreaming ==
    \A r \in DOMAIN requests : InFlight(r) => isChatLoading

----------------------------------------------------------------------------
(* C33 *)

\* C33: whatever number of framed chunks one read of handleSendMessage
\* delivers, what the client has accumulated and what is still to come are
\* together the text of the model: a read moves text from the stream to
\* chunkSum, leaves no frame prefix in it and removes nothing of the text.
C33_BufferIsModelText ==
    [][\A r \in DOMAIN requests :
          (requests[r].kind = "user" /\ requests[r].st = "streaming")
              => Buffer(r)' = Buffer(r)]_vars

----------------------------------------------------------------------------
(* C34 *)

\* The sockets of the default namespace that are connected with userId
Connected(userId) ==
    {s \in 1..MaxSockets : /\ socketServer.sockets[s].st = "open"
                           /\ socketServer.sockets[s].userId = userId}

\* C34: the users map holds for a userId at most one socket, a connected
\* socket of that userId, and no other socket of the userId is connected; a
\* connection for a registered userId is refused and leaves the entry as it
\* is; an entry goes only when the socket it holds is disconnected.
C34_OneSocketPerUser ==
    /\ [](\A u \in UserIds :
             Connected(u) = IF socketServer.users[u] = 0 THEN {}
                            ELSE {socketServer.users[u]})
    /\ [][\A u \in UserIds :
             socketServer.users[u] # 0
                 => \/ socketServer.users'[u] = socketServer.users[u]
                    \/ /\ socketServer.users'[u] = 0
                       /\ socketServer.sockets'[socketServer.users[u]].st = "closed"]_vars
    /\ [][\A s \in 1..MaxSockets :
             (socketServer.sockets[s].st = "none"
                  /\ socketServer.sockets'[s].st # "none"
                  /\ socketServer.sockets'[s].userId # ""
                  /\ socketServer.users[socketServer.sockets'[s].userId] # 0)
                 => /\ socketServer.sockets'[s].st = "refused"
                    /\ socketServer.users' = socketServer.users]_vars

\* A second connection of a registered user was refused while the first is
\* connected and registered
C34_Witness ==
    \E s, t \in 1..MaxSockets :
        /\ s # t
        /\ socketServer.sockets[s].st = "open"
        /\ socketServer.sockets[t].st = "refused"
        /\ socketServer.sockets[t].userId = socketServer.sockets[s].userId
        /\ socketServer.users[socketServer.sockets[s].userId] = s

----------------------------------------------------------------------------
(* C35 *)

\* The client of userId has replaced socket s by socket t and the server
\* has handled both the disconnect of s and the connection of t; the user
\* has no other socket
Replaced(userId, s, t) ==
    /\ s # t
    /\ socketServer.sockets[s] = [userId |-> userId, st |-> "closed"]
    /\ socketServer.sockets[t].userId = userId
    /\ socketServer.sockets[t].st \in {"open", "refused"}
    /\ \A q \in 1..MaxSockets \ {s, t} : socketServer.sockets[q].userId # userId

\* C35: once the server has handled the disconnect of the old socket and
\* the connection of the new one, in whichever order, the user is
\* registered in the users map with the new socket.
C35_RegisteredAfterReplace ==
    \A u \in UserIds : \A s, t \in 1..MaxSockets :
        Replaced(u, s, t) => socketServer.users[u] = t

----------------------------------------------------------------------------
(* C36 *)

\* The calls of generateProject that have started and not finished
Generating == {c \in DOMAIN projectStore.calls : projectStore.calls[c].pc \in Awaiting}

\* C36: isProjectGenerating is true exactly while at least one call of
\* generateProject has started and not finished, also when calls overlap,
\* and false once every started call has finished, by success or by failure.
C36_FlagWhileGenerating ==
    projectStore.isProjectGenerating <=> Generating # {}

----------------------------------------------------------------------------
(* C37 *)

\* Request r has been answered
Answered(r) == projectFiles.requests[r].pc = "done"

\* The rows request r has stored
RowsBy(r) == {k \in DOMAIN projectFiles.files : projectFiles.files[k].by = r}

\* C37: however concurrent POST requests for one project interleave, no two
\* stored files have the same path, and a request that finds its path taken
\* stores nothing and is answered with 400.
C37_NoDuplicatePath ==
    /\ \A k, l \in DOMAIN projectFiles.files :
           k # l => projectFiles.files[k].path # projectFiles.files[l].path
    /\ \A r \in 1..MaxFilePosts :
           Answered(r) =>
               \/ projectFiles.requests[r].status = 200 /\ Cardinality(RowsBy(r)) = 1
               \/ projectFiles.requests[r].status = 400 /\ RowsBy(r) = {}

====
